---------------------------- MODULE Spec2Model ----------------------------
(***************************************************************************)
(* A model of jeiss-convert: the versioned header codec (utils.py,         *)
(* compound.py), the payload splitter/joiner, the HDF5 conversion          *)
(* (hdf5.py) and the verifier (verify.py).                                 *)
(*                                                                         *)
(* Bytes are integers 0..255 and buffers are sequences of bytes.  Python   *)
(* exceptions are results [ok |-> FALSE, err |-> <exception name>].        *)
(* The schema tables (jeiss-specs/specs/*.tsv), the enumeration tables     *)
(* (jeiss-specs/enums/*.tsv) and misc.toml are data files loaded at import *)
(* time; the registry below is a small sample of such tables that uses the *)
(* field names the code itself reads.                                      *)
(***************************************************************************)
EXTENDS Integers, Sequences, FiniteSets, TLC

(***************************************************************************)
(* Program constants                                                       *)
(***************************************************************************)
HEADER_LENGTH == 1024

DAT_NBYTES_FIELD == "_dat_nbytes"
HEADER_DS == "_header"
FOOTER_DS == "_footer"
DATASET_PREFIX == "AI"
ENUM_NAME_SUFFIX == "__name"
COMPLETE_FIELD == "_is_complete"
DEFAULT_AXIS_ORDER == "F"

(***************************************************************************)
(* Generic helpers                                                         *)
(***************************************************************************)
EmptyDict == [k \in {} |-> 0]

Ok(v) == [ok |-> TRUE, val |-> v]

Err(e) == [ok |-> FALSE, err |-> e]

(* A call that raised passes its exception on; the code after a call that  *)
(* returned goes on with the value.                                        *)
Then(r, F(_)) == IF r.ok THEN F(r.val) ELSE r

(* A faulty variant of Zeros: a buffer of ones.  The zero spacers of C7    *)
(* do not survive it.                                                      *)
Ones(n) == [i \in 1..n |-> 1]

Zeros(n) == [i \in 1..n |-> 0]

RECURSIVE Pow256(_)
Pow256(n) == IF n = 0 THEN 1 ELSE 256 * Pow256(n - 1)

RECURSIVE Prod(_)
Prod(s) == IF Len(s) = 0 THEN 1 ELSE Head(s) * Prod(Tail(s))

(* b[lo:hi] of Python: the bytes at 0-based positions lo..hi-1, clipped. *)
Slice(b, lo, hi) ==
    LET h == IF hi < Len(b) THEN hi ELSE Len(b)
    IN  IF lo >= h THEN <<>> ELSE SubSeq(b, lo + 1, h)

(***************************************************************************)
(* numpy dtypes: kind "u" (unsigned), "i" (signed), "S" (byte string),     *)
(* all big-endian, of `size` bytes per item.                               *)
(***************************************************************************)
DType(kind, size) == [kind |-> kind, size |-> size]

U1 == DType("u", 1)
U2 == DType("u", 2)
U4 == DType("u", 4)
I2 == DType("i", 2)

(* Big-endian unsigned value of a byte sequence. *)
RECURSIVE BEValue(_)
BEValue(bs) ==
    IF Len(bs) = 0 THEN 0
    ELSE BEValue(SubSeq(bs, 1, Len(bs) - 1)) * 256 + bs[Len(bs)]

(* The low n bytes, big-endian, of the two's complement form of v. *)
RECURSIVE BEBytes(_, _)
BEBytes(v, n) ==
    IF n = 0 THEN <<>> ELSE Append(BEBytes(v \div 256, n - 1), v % 256)

(* numpy drops the trailing NUL bytes of an S item when it is read out. *)
RECURSIVE StripNul(_)
StripNul(bs) ==
    IF Len(bs) > 0 /\ bs[Len(bs)] = 0 THEN StripNul(SubSeq(bs, 1, Len(bs) - 1))
    ELSE bs

(* A faulty variant of ItemDecode: signed items read as unsigned.  The     *)
(* element type of C25 does not survive it.                                *)
ItemDecode_unsigned(dt, bs) ==
    IF dt.kind = "S" THEN StripNul(bs) ELSE BEValue(bs)

(* One item of dtype dt from its size bytes. *)
ItemDecode(dt, bs) ==
    CASE dt.kind = "u" -> BEValue(bs)
      [] dt.kind = "i" ->
            IF BEValue(bs) >= Pow256(dt.size) \div 2
            THEN BEValue(bs) - Pow256(dt.size) ELSE BEValue(bs)
      [] dt.kind = "S" -> StripNul(bs)

(* A faulty variant of ItemEncode: two-byte integers written               *)
(* little-endian.  The left inverse of C5 does not survive it.             *)
ItemEncode_little_endian(dt, v) ==
    IF dt.kind = "S" THEN [i \in 1..dt.size |-> IF i <= Len(v) THEN v[i] ELSE 0]
    ELSE IF dt.size = 2 THEN <<v % 256, (v \div 256) % 256>>
    ELSE BEBytes(v, dt.size)

(* The bytes of one item of dtype dt (ndarray.tobytes of a 0-d array):     *)
(* two's complement big-endian for integers, NUL-padded (or cut) to the    *)
(* item size for byte strings.                                             *)
ItemEncode(dt, v) ==
    CASE dt.kind = "u" -> BEBytes(v, dt.size)
      [] dt.kind = "i" -> BEBytes(v, dt.size)
      [] dt.kind = "S" ->
            [i \in 1..dt.size |-> IF i <= Len(v) THEN v[i] ELSE 0]


(***************************************************************************)
(* numpy arrays: [dtype, shape, el], el a function from the 0-based index  *)
(* tuples of the shape to the items.                                       *)
(***************************************************************************)
RECURSIVE Indices(_)
Indices(shape) ==
    IF Len(shape) = 0 THEN {<<>>}
    ELSE {<<i>> \o t : i \in 0..(Head(shape) - 1), t \in Indices(Tail(shape))}

(* The index tuple at 0-based position n of the column-major ("F")         *)
(* enumeration of a shape: the first axis varies fastest.                  *)
RECURSIVE FUnravel(_, _)
FUnravel(n, shape) ==
    IF Len(shape) = 0 THEN <<>>
    ELSE <<n % Head(shape)>> \o FUnravel(n \div Head(shape), Tail(shape))

(* The index tuple at 0-based position n of the row-major ("C")            *)
(* enumeration: the last axis varies fastest.                              *)
RECURSIVE CUnravel(_, _)
CUnravel(n, shape) ==
    IF Len(shape) = 0 THEN <<>>
    ELSE LET k == Len(shape)
         IN  Append(CUnravel(n \div shape[k], SubSeq(shape, 1, k - 1)),
                    n % shape[k])

Unravel(n, shape, order) ==
    IF order = "F" THEN FUnravel(n, shape) ELSE CUnravel(n, shape)

(* Python values carry their type: a numpy scalar, an ndarray, an int, a   *)
(* str (its code points) or a list.                                         *)
NpScalar(dt, v) == [t |-> "np", dtype |-> dt, v |-> v]

Array(dt, shape, el) == [t |-> "ndarray", dtype |-> dt, shape |-> shape, el |-> el]

PyInt(v) == [t |-> "int", v |-> v]

PyStr(cps) == [t |-> "str", v |-> cps]

PyList(items) == [t |-> "list", v |-> items]

(* A faulty variant of FLinear: the last axis varies fastest.  The layout  *)
(* of C3 does not survive it.                                              *)
RECURSIVE last_axis_fastest(_, _)
last_axis_fastest(idx, shape) ==
    IF Len(shape) = 0 THEN 0
    ELSE idx[Len(shape)] + shape[Len(shape)]
             * last_axis_fastest(SubSeq(idx, 1, Len(shape) - 1),
                                 SubSeq(shape, 1, Len(shape) - 1))

(* The 0-based position of an index tuple in the column-major and in the   *)
(* row-major enumeration of a shape.                                       *)
RECURSIVE FLinear(_, _)
FLinear(idx, shape) ==
    IF Len(shape) = 0 THEN 0
    ELSE Head(idx) + Head(shape) * FLinear(Tail(idx), Tail(shape))

RECURSIVE CLinear(_, _)
CLinear(idx, shape) ==
    IF Len(shape) = 0 THEN 0
    ELSE LET k == Len(shape)
         IN  idx[k] + shape[k] * CLinear(SubSeq(idx, 1, k - 1), SubSeq(shape, 1, k - 1))

Linear(idx, shape, order) ==
    IF order = "F" THEN FLinear(idx, shape) ELSE CLinear(idx, shape)

(* data.reshape(shape, order): the items of the 1-D sequence laid out in   *)
(* the given order.                                                        *)
Reshape(dt, items, shape, order) ==
    Array(dt, shape,
          [idx \in Indices(shape) |-> items[1 + Linear(idx, shape, order)]])

(* The items of an array as a sequence, in the given order. *)
Ravel(arr, order) ==
    [n \in 1..Prod(arr.shape) |-> arr.el[Unravel(n - 1, arr.shape, order)]]

(* The bytes of a sequence of items of one dtype. *)
ItemsToBytes(dt, items) ==
    [i \in 1..(Len(items) * dt.size) |->
        ItemEncode(dt, items[1 + ((i - 1) \div dt.size)])[1 + ((i - 1) % dt.size)]]

(* ndarray.tobytes(order) *)
tobytes(arr, order) == ItemsToBytes(arr.dtype, Ravel(arr, order))

(* A faulty variant of nbytes: the number of items.  The record length of  *)
(* C14 does not survive it.                                                *)
nbytes_as_size(arr) == Prod(arr.shape)

(* arr.nbytes *)
nbytes(arr) == Prod(arr.shape) * arr.dtype.size

(***************************************************************************)
(* utils.read_value                                                        *)
(***************************************************************************)
NoFill == [given |-> FALSE, v |-> 0]

Fill(v) == [given |-> TRUE, v |-> v]

(* np.frombuffer(buffer, dtype, count, offset): raises ValueError when the *)
(* offset is past the end of the buffer or the buffer holds fewer than     *)
(* count items from the offset; otherwise exactly count items.             *)
np_frombuffer(buffer, dt, count, offset) ==
    IF offset > Len(buffer) \/ Len(buffer) - offset < count * dt.size
    THEN Err("ValueError")
    ELSE Ok([n \in 1..count |->
               ItemDecode(dt, SubSeq(buffer, offset + (n - 1) * dt.size + 1,
                                             offset + n * dt.size))])

(* shape <<>> stands for None and for the empty tuple: `not shape` holds   *)
(* of both.                                                                *)
read_value(buffer, dt, offset, shape, fill) ==
    LET count == IF Len(shape) = 0 THEN 1
                 ELSE IF Len(shape) = 1 THEN shape[1] ELSE Prod(shape)
        padded(data) == IF Len(data) < count
                        THEN data \o [n \in 1..(count - Len(data)) |-> fill.v]
                        ELSE data
        shaped(data) == IF Len(shape) = 0 THEN NpScalar(dt, data[1])
                        ELSE IF Len(shape) = 1 THEN Reshape(dt, data, shape, "C")
                        ELSE Reshape(dt, data, shape, DEFAULT_AXIS_ORDER)
    IN  Then(np_frombuffer(buffer, dt, count, offset), LAMBDA data :
            IF Len(data) < count /\ ~fill.given THEN Err("RuntimeError")
            ELSE Ok(shaped(padded(data))))


(***************************************************************************)
(* The schema registry: utils.SPECS, utils.ENUMS                           *)
(***************************************************************************)
(* A shape entry of a schema line: an integer or the name of a field. *)
Lit(n) == [int |-> TRUE, n |-> n, name |-> ""]

Ref(f) == [int |-> FALSE, n |-> 0, name |-> f]

SpecTuple(name, dt, offset, shape) ==
    [name |-> name, dtype |-> dt, offset |-> offset, shape |-> shape]

(* A scalar line: the shape column "0" is read as the tuple (0,). *)
Scalar(name, dt, offset) == SpecTuple(name, dt, offset, <<Lit(0)>>)

SpecV0 ==
    << Scalar("FileMagicNum", U4, 0),
       Scalar("FileVersion", U2, 4) >>

SpecCommon ==
    << Scalar("FileMagicNum", U4, 0),
       Scalar("FileVersion", U2, 4),
       Scalar("MachineID", DType("S", 4), 8),
       Scalar("ChanNum", U1, 32),
       Scalar("EightBit", U1, 33),
       Scalar("Mode", U1, 34) >>

SpecTail ==
    << Scalar("XResolution", U4, 100),
       Scalar("YResolution", U4, 104),
       Scalar("AI1", U1, 151),
       Scalar("AI2", U1, 152),
       Scalar("AI3", U1, 153),
       Scalar("AI4", U1, 154) >>

(* Version 7: scalar fields only.  Version 8: also an array field whose    *)
(* shape names the field ChanNum.                                          *)
SPECS ==
    (0 :> SpecV0)
    @@ (7 :> SpecCommon \o SpecTail)
    @@ (8 :> SpecCommon
             \o << SpecTuple("Scaling", U2, 36, <<Lit(2), Ref("ChanNum")>>) >>
             \o SpecTail)

(* The dictionary a loop of d[key] = value assignments leaves: for each    *)
(* key, the value of the last pair (at positions k and 3 - k) that has it. *)
last_assigned(pairs, k) ==
    [key \in {pairs[i][k] : i \in 1..Len(pairs)} |->
        pairs[CHOOSE i \in 1..Len(pairs) :
                 /\ pairs[i][k] = key
                 /\ \A j \in (i + 1)..Len(pairs) : pairs[j][k] # key][3 - k]]

(* EnumMapping.__init__: the two dictionaries, filled pair by pair, and    *)
(* ValueError when they end with different lengths.                        *)
EnumMapping(values_names) ==
    LET value_to_name == last_assigned(values_names, 1)
        name_to_value == last_assigned(values_names, 2)
    IN  IF Cardinality(DOMAIN value_to_name) # Cardinality(DOMAIN name_to_value)
        THEN Err("ValueError")
        ELSE Ok([value_to_name |-> value_to_name, name_to_value |-> name_to_value])

ENUMS == ("Mode" :> EnumMapping(<< <<0, "SEM">>, <<1, "FIB">> >>).val)

(* EnumMapping.get_value: KeyError for a name that is not in the table. *)
get_value(enum, name) ==
    IF name \in DOMAIN enum.name_to_value
    THEN Ok(enum.name_to_value[name]) ELSE Err("KeyError")

(* A faulty variant of get_name: one name for every value.  The duality   *)
(* of C15 does not survive it.                                             *)
get_name_constant(enum, value) == Ok("SEM")

(* EnumMapping.get_name: KeyError for a value that is not in the table. *)
get_name(enum, value) ==
    IF value \in DOMAIN enum.value_to_name
    THEN Ok(enum.value_to_name[value]) ELSE Err("KeyError")

(***************************************************************************)
(* utils.SpecTuple                                                         *)
(***************************************************************************)
(* realise_shape: None (<<>> here) for an empty shape and for (0,);        *)
(* KeyError when a named field is not in meta.                             *)
RECURSIVE realise_items(_, _)
realise_items(shape, meta) ==
    IF Len(shape) = 0 THEN Ok(<<>>)
    ELSE LET item == Head(shape)
             rest == realise_items(Tail(shape), meta)
         IN  IF item.int
             THEN IF rest.ok THEN Ok(<<item.n>> \o rest.val) ELSE rest
             ELSE IF item.name \notin DOMAIN meta THEN Err("KeyError")
             ELSE IF rest.ok THEN Ok(<<meta[item.name].v>> \o rest.val) ELSE rest

realise_shape(line, meta) ==
    IF Len(line.shape) = 0 \/ line.shape = <<Lit(0)>> THEN Ok(<<>>)
    ELSE realise_items(line.shape, meta)

(* A faulty variant of read_into: the name of an enum value is looked up   *)
(* whether names were asked for or not.  The raw decode of C27 does not    *)
(* survive it.                                                             *)
read_into_always_named(line, f, out, name_enums) ==
    IF line.name \in DOMAIN out THEN Ok(out)
    ELSE Then(realise_shape(line, out), LAMBDA shape :
         Then(read_value(f, line.dtype, line.offset, shape, NoFill), LAMBDA val :
            IF line.name \in DOMAIN ENUMS
            THEN Then(get_name(ENUMS[line.name], val.v), LAMBDA name :
                    Ok((line.name \o ENUM_NAME_SUFFIX :> PyStr(name))
                           @@ (line.name :> val) @@ out))
            ELSE Ok((line.name :> val) @@ out)))

(* read_into(f, out, force=False, name_enums): out with the field's value  *)
(* (and the name of its enum value) added, or the exception raised.        *)
read_into(line, f, out, name_enums) ==
    IF line.name \in DOMAIN out THEN Ok(out)
    ELSE Then(realise_shape(line, out), LAMBDA shape :
         Then(read_value(f, line.dtype, line.offset, shape, NoFill), LAMBDA val :
            IF name_enums /\ line.name \in DOMAIN ENUMS
            THEN Then(get_name(ENUMS[line.name], val.v), LAMBDA name :
                    Ok((line.name \o ENUM_NAME_SUFFIX :> PyStr(name))
                           @@ (line.name :> val) @@ out))
            ELSE Ok((line.name :> val) @@ out)))


(***************************************************************************)
(* utils: decoding and encoding a header                                   *)
(***************************************************************************)
RECURSIVE parse_lines(_, _, _, _)
parse_lines(spec, b, out, name_enums) ==
    IF Len(spec) = 0 THEN Ok(out)
    ELSE Then(read_into(Head(spec), b, out, name_enums), LAMBDA o :
            parse_lines(Tail(spec), b, o, name_enums))

(* A faulty variant of _parse_with_version: a version that the registry    *)
(* does not hold is decoded with the version-0 schema.  The failure of C19 *)
(* does not survive it.                                                    *)
parse_with_bootstrap_fallback(b, version, name_enums) ==
    parse_lines(SPECS[IF version \in DOMAIN SPECS THEN version ELSE 0],
                b, EmptyDict, name_enums)

(* _parse_with_version: KeyError when the registry has no such version. *)
parse_with_version(b, version, name_enums) ==
    IF version \notin DOMAIN SPECS THEN Err("KeyError")
    ELSE parse_lines(SPECS[version], b, EmptyDict, name_enums)

(* handle_dates adds an ISO date entry for each field of DATE_FIELDS that  *)
(* the mapping holds and that parses as a date.  No schema of the sample   *)
(* registry has a date field: d.get(k) is None for each k, and the mapping *)
(* is returned as it came.                                                 *)
handle_dates(d) == d

(* A faulty variant of parse_bytes: every buffer is decoded with the       *)
(* schema of version 7.  The dispatch of C18 does not survive it.          *)
parse_bytes_version_7(b, name_enums) ==
    Then(parse_with_version(b, 7, name_enums), LAMBDA out :
        Ok((DAT_NBYTES_FIELD :> NpScalar(DType("u", 8), Len(b))) @@ out))

(* A faulty variant of parse_bytes: the byte count recorded is the length  *)
(* of a header.  The recorded length of C28 does not survive it.           *)
parse_bytes_header_length(b, name_enums) ==
    Then(parse_with_version(b, 0, name_enums), LAMBDA d :
    Then(parse_with_version(b, d["FileVersion"].v, name_enums), LAMBDA out :
        Ok((DAT_NBYTES_FIELD :> NpScalar(DType("u", 8), HEADER_LENGTH)) @@ out)))

parse_bytes(b, name_enums) ==
    Then(parse_with_version(b, 0, name_enums), LAMBDA d :
    Then(parse_with_version(b, d["FileVersion"].v, name_enums), LAMBDA out :
        Ok(IF name_enums
           THEN handle_dates((DAT_NBYTES_FIELD :> NpScalar(DType("u", 8), Len(b))) @@ out)
           ELSE (DAT_NBYTES_FIELD :> NpScalar(DType("u", 8), Len(b))) @@ out)))

(* A faulty variant of seek_write: the write lands at the start of the     *)
(* buffer.  The round trip of C1 does not survive it.                      *)
seek_write_at_start(buffer, offset, bs) ==
    bs \o SubSeq(buffer, Len(bs) + 1, Len(buffer))

(* BytesIO: seek(offset) then write(bs) overwrites in place and grows the  *)
(* buffer (zero-filled) when the write passes its end.                     *)
seek_write(buffer, offset, bs) ==
    LET pre  == IF offset <= Len(buffer) THEN SubSeq(buffer, 1, offset)
                ELSE buffer \o Zeros(offset - Len(buffer))
        post == IF offset + Len(bs) < Len(buffer)
                THEN SubSeq(buffer, offset + Len(bs) + 1, Len(buffer)) ELSE <<>>
    IN  pre \o bs \o post

(* The bytes write_header writes for one field: an ndarray is written as   *)
(* it is, anything else goes through np.asarray(item, dtype).              *)
item_bytes(item, dt) ==
    IF item.t = "ndarray" THEN tobytes(item, DEFAULT_AXIS_ORDER)
    ELSE ItemEncode(dt, item.v)

(* A faulty variant of write_lines: a field that the mapping lacks is left *)
(* as zeros.  The failure of C20 does not survive it.                      *)
RECURSIVE write_lines_lenient(_, _, _)
write_lines_lenient(spec, data, buffer) ==
    IF Len(spec) = 0 THEN Ok(buffer)
    ELSE IF Head(spec).name \notin DOMAIN data
         THEN write_lines_lenient(Tail(spec), data, buffer)
    ELSE write_lines_lenient(Tail(spec), data,
             seek_write(buffer, Head(spec).offset,
                        item_bytes(data[Head(spec).name], Head(spec).dtype)))

RECURSIVE write_lines(_, _, _)
write_lines(spec, data, buffer) ==
    IF Len(spec) = 0 THEN Ok(buffer)
    ELSE LET line == Head(spec)
         IN  IF line.name \notin DOMAIN data THEN Err("KeyError")
             ELSE write_lines(Tail(spec), data,
                      seek_write(buffer, line.offset,
                                 item_bytes(data[line.name], line.dtype)))

write_header(data) ==
    IF "FileVersion" \notin DOMAIN data THEN Err("KeyError")
    ELSE IF data["FileVersion"].v \notin DOMAIN SPECS THEN Err("KeyError")
    ELSE write_lines(SPECS[data["FileVersion"].v], data, Zeros(HEADER_LENGTH))

(***************************************************************************)
(* utils.ParsedData.from_bytes                                             *)
(***************************************************************************)
from_bytes(b, name_enums, fill) ==
    Then(parse_bytes(b, name_enums), LAMBDA meta :
        IF {"ChanNum", "XResolution", "YResolution", "EightBit"} \subseteq DOMAIN meta
        THEN Then(read_value(b, IF meta["EightBit"].v # 0 THEN U1 ELSE I2,
                             HEADER_LENGTH,
                             <<meta["ChanNum"].v, meta["XResolution"].v,
                               meta["YResolution"].v>>, fill),
                  LAMBDA data :
                     Ok([meta   |-> meta,
                         data   |-> data,
                         header |-> Slice(b, 0, HEADER_LENGTH),
                         footer |-> Slice(b, HEADER_LENGTH + nbytes(data), Len(b))]))
        ELSE Err("KeyError"))


(***************************************************************************)
(* JSON-safe values: SpecTuple.dtype_to_jso, SpecTuple.jso_to_dtype        *)
(***************************************************************************)
(* bytes.decode(): UTF-8.  One-byte (00..7F) and two-byte (C2..DF, 80..BF) *)
(* sequences decode to their code point; a byte that starts neither (a     *)
(* stray continuation byte, C0, C1, F5..FF) or a lead byte without its     *)
(* continuation raises UnicodeDecodeError.  The inputs hold no lead byte   *)
(* of a three- or four-byte sequence (E0..F4).                             *)
RECURSIVE utf8_decode(_)
utf8_decode(bs) ==
    IF Len(bs) = 0 THEN Ok(<<>>)
    ELSE IF bs[1] < 128
         THEN Then(utf8_decode(Tail(bs)), LAMBDA rest : Ok(<<bs[1]>> \o rest))
    ELSE IF bs[1] >= 194 /\ bs[1] <= 223 /\ Len(bs) >= 2
            /\ bs[2] >= 128 /\ bs[2] <= 191
         THEN Then(utf8_decode(Tail(Tail(bs))), LAMBDA rest :
                 Ok(<<(bs[1] - 192) * 64 + (bs[2] - 128)>> \o rest))
    ELSE Err("UnicodeDecodeError")

(* str.encode(): UTF-8 of code points below 0x800. *)
RECURSIVE utf8_encode(_)
utf8_encode(cps) ==
    IF Len(cps) = 0 THEN <<>>
    ELSE IF cps[1] < 128 THEN <<cps[1]>> \o utf8_encode(Tail(cps))
    ELSE <<192 + (cps[1] \div 64), 128 + (cps[1] % 64)>> \o utf8_encode(Tail(cps))

(* ndarray.tolist(): nested lists, one level per axis, of Python ints. *)
RECURSIVE nested_list(_, _, _)
nested_list(el, shape, prefix) ==
    IF Len(shape) = 0 THEN PyInt(el[prefix])
    ELSE PyList([i \in 1..Head(shape) |->
                    nested_list(el, Tail(shape), Append(prefix, i - 1))])

(* dtype_to_jso(value): value.tolist(), and bytes decoded to str. *)
dtype_to_jso(value) ==
    IF value.t = "ndarray" THEN Ok(nested_list(value.el, value.shape, <<>>))
    ELSE IF value.dtype.kind = "S"
         THEN Then(utf8_decode(value.v), LAMBDA s : Ok(PyStr(s)))
    ELSE Ok(PyInt(value.v))

(* The shape numpy infers from a nested list, and the item at an index. *)
RECURSIVE list_shape(_)
list_shape(value) ==
    IF value.t = "list"
    THEN IF Len(value.v) = 0 THEN <<0>>
         ELSE <<Len(value.v)>> \o list_shape(value.v[1])
    ELSE <<>>

RECURSIVE list_item(_, _)
list_item(value, idx) ==
    IF Len(idx) = 0 THEN value.v ELSE list_item(value.v[Head(idx) + 1], Tail(idx))

(* jso_to_dtype(value): a str is encoded; np.asarray(value, dtype); a list *)
(* gives the array, anything else the scalar arr.reshape(1)[0].  An item   *)
(* passes through the dtype: an integer is stored in its size bytes, a     *)
(* byte string is cut or NUL-padded to the item size.                      *)
jso_to_dtype(line, value) ==
    LET dt == line.dtype
        cast(v) == ItemDecode(dt, ItemEncode(dt, v))
    IN  IF value.t = "list"
        THEN Array(dt, list_shape(value),
                   [idx \in Indices(list_shape(value)) |-> cast(list_item(value, idx))])
        ELSE IF value.t = "str" THEN NpScalar(dt, cast(utf8_encode(value.v)))
        ELSE NpScalar(dt, cast(value.v))

RECURSIVE jso_lines(_, _, _)
jso_lines(spec, meta, out) ==
    IF Len(spec) = 0 THEN Ok(out)
    ELSE IF Head(spec).name \notin DOMAIN meta THEN Err("KeyError")
    ELSE Then(dtype_to_jso(meta[Head(spec).name]), LAMBDA v :
            jso_lines(Tail(spec), meta, (Head(spec).name :> v) @@ out))

metadata_to_jso(meta) ==
    IF "FileVersion" \notin DOMAIN meta THEN Err("KeyError")
    ELSE IF meta["FileVersion"].v \notin DOMAIN SPECS THEN Err("KeyError")
    ELSE jso_lines(SPECS[meta["FileVersion"].v], meta, EmptyDict)

RECURSIVE numpy_lines(_, _, _)
numpy_lines(spec, meta, out) ==
    IF Len(spec) = 0 THEN Ok(out)
    ELSE LET item == Head(spec)
         IN  IF item.name \notin DOMAIN meta THEN Err("KeyError")
             ELSE numpy_lines(Tail(spec), meta,
                      (item.name :> jso_to_dtype(item, meta[item.name])) @@ out)

metadata_to_numpy(meta) ==
    IF "FileVersion" \notin DOMAIN meta THEN Err("KeyError")
    ELSE IF meta["FileVersion"].v \notin DOMAIN SPECS THEN Err("KeyError")
    ELSE numpy_lines(SPECS[meta["FileVersion"].v], meta, EmptyDict)


(***************************************************************************)
(* specs.py and compound.py: the header as one compound record             *)
(***************************************************************************)
(* sorted(..., key=lambda s: s.offset): a stable insertion sort. *)
RECURSIVE insert_by_offset(_, _)
insert_by_offset(line, sorted) ==
    IF Len(sorted) = 0 THEN <<line>>
    ELSE IF Head(sorted).offset <= line.offset
         THEN <<Head(sorted)>> \o insert_by_offset(line, Tail(sorted))
         ELSE <<line>> \o sorted

RECURSIVE sort_by_offset(_)
sort_by_offset(spec) ==
    IF Len(spec) = 0 THEN <<>>
    ELSE insert_by_offset(spec[Len(spec)], sort_by_offset(SubSeq(spec, 1, Len(spec) - 1)))

(* specs.SPECS: each schema sorted by offset. *)
SORTED_SPECS == [v \in DOMAIN SPECS |-> sort_by_offset(SPECS[v])]

(* specs.SpecTuple.realise_shape: as in utils, but a field that meta does  *)
(* not hold raises SelfReferentialSpecException.                           *)
raise_self_referential(r) ==
    IF ~r.ok /\ r.err = "KeyError" THEN Err("SelfReferentialSpecException") ELSE r

specs_realise_shape(line, meta) == raise_self_referential(realise_shape(line, meta))

(* A member of the compound dtype: a field of the schema or a spacer. *)
Member(name, dt, shape, offset, spacer) ==
    [name |-> name, dtype |-> dt, shape |-> shape, offset |-> offset,
     spacer |-> spacer]

member_size(m) == m.dtype.size * Prod(m.shape)

(* A faulty variant of compound_loop: a field that starts before the end   *)
(* of the previous one is taken as it comes.  The rejection of C24 does    *)
(* not survive it.                                                         *)
RECURSIVE compound_loop_unchecked(_, _, _, _, _)
compound_loop_unchecked(spec, meta, dtuples, offset, spacers) ==
    IF Len(spec) = 0
    THEN Ok([dtuples |-> dtuples, offset |-> offset, spacers |-> spacers])
    ELSE LET stuple == Head(spec)
             gap    == stuple.offset - offset
             pad    == Member("_", U1, <<gap>>, offset, TRUE)
         IN  Then(specs_realise_shape(stuple, meta), LAMBDA shape :
                 compound_loop_unchecked(Tail(spec), meta,
                     (IF gap > 0 THEN Append(dtuples, pad) ELSE dtuples)
                         \o <<Member(stuple.name, stuple.dtype, shape,
                                     stuple.offset, FALSE)>>,
                     stuple.offset + stuple.dtype.size * Prod(shape),
                     IF gap > 0 THEN (offset :> gap) @@ spacers ELSE spacers))

(* The loop of make_compound_dtype: the members so far, the running offset *)
(* and the spacers (start offset -> length).                               *)
RECURSIVE compound_loop(_, _, _, _, _)
compound_loop(spec, meta, dtuples, offset, spacers) ==
    IF Len(spec) = 0
    THEN Ok([dtuples |-> dtuples, offset |-> offset, spacers |-> spacers])
    ELSE LET stuple == Head(spec)
             gap    == stuple.offset - offset
             pad    == Member("_", U1, <<gap>>, offset, TRUE)
         IN  IF offset > stuple.offset THEN Err("ValueError")
             ELSE Then(specs_realise_shape(stuple, meta), LAMBDA shape :
                     compound_loop(Tail(spec), meta,
                         (IF gap > 0 THEN Append(dtuples, pad) ELSE dtuples)
                             \o <<Member(stuple.name, stuple.dtype, shape,
                                         stuple.offset, FALSE)>>,
                         stuple.offset + stuple.dtype.size * Prod(shape),
                         IF gap > 0 THEN (offset :> gap) @@ spacers ELSE spacers))

(* A faulty variant of compound_dtype: nothing is added after the last     *)
(* field.  The coverage of C30 does not survive it.                        *)
compound_dtype_without_tail(spec, meta) ==
    Then(compound_loop(spec, meta, <<>>, 0, EmptyDict), LAMBDA r :
        Ok([dtype |-> r.dtuples, spacers |-> r.spacers]))

(* make_compound_dtype, from the schema it has looked up. *)
compound_dtype(spec, meta) ==
    Then(compound_loop(spec, meta, <<>>, 0, EmptyDict), LAMBDA r :
        IF r.offset < HEADER_LENGTH
        THEN Ok([dtype   |-> Append(r.dtuples,
                                 Member("_", U1, <<HEADER_LENGTH - r.offset>>,
                                        r.offset, TRUE)),
                 spacers |-> (r.offset :> HEADER_LENGTH - r.offset) @@ r.spacers])
        ELSE Ok([dtype |-> r.dtuples, spacers |-> r.spacers]))

make_compound_dtype(version, meta) ==
    IF version \notin DOMAIN SORTED_SPECS THEN Err("KeyError")
    ELSE compound_dtype(SORTED_SPECS[version], meta)

(* COMPOUND_SPECS: the versions whose compound dtype can be built without  *)
(* a decoded header.                                                       *)
COMPOUND_SPECS ==
    [v \in {w \in DOMAIN SORTED_SPECS : make_compound_dtype(w, EmptyDict).ok} |->
        make_compound_dtype(v, EmptyDict).val]

(* The module-level dictionaries as the imports leave them. *)
Imported == [SPECS |-> SPECS, COMPOUND_SPECS |-> COMPOUND_SPECS, ENUMS |-> ENUMS]

(* A faulty variant of compound_specs_after: a dtype that had to be built  *)
(* for the call is kept in COMPOUND_SPECS.  The immutability of C21 does   *)
(* not survive it.                                                         *)
compound_specs_memoized(cs, version, meta) ==
    IF version \in DOMAIN cs \/ ~make_compound_dtype(version, meta).ok THEN cs
    ELSE (version :> make_compound_dtype(version, meta).val) @@ cs

(* COMPOUND_SPECS after the lookup of _from_bytes_version and from_dict:   *)
(* on a KeyError the dtype is built for the call and returned; nothing is  *)
(* assigned to the dictionary.                                             *)
compound_specs_after(cs, version, meta) == cs

(* dtype.itemsize of a compound dtype: its members are packed. *)
RECURSIVE itemsize(_)
itemsize(dtype) ==
    IF Len(dtype) = 0 THEN 0 ELSE member_size(Head(dtype)) + itemsize(Tail(dtype))

(* A Header: the compound dtype and the value of each member, keyed by the *)
(* member's offset (a sub-array member is laid out row-major).             *)
member_value(m, b) ==
    LET items == [n \in 1..Prod(m.shape) |->
                    ItemDecode(m.dtype, SubSeq(b, m.offset + (n - 1) * m.dtype.size + 1,
                                                  m.offset + n * m.dtype.size))]
    IN  IF Len(m.shape) = 0 THEN NpScalar(m.dtype, items[1])
        ELSE Reshape(m.dtype, items, m.shape, "C")

(* The mapping a Header presents: its fields, without the spacers. *)
header_fields(h) ==
    LET ms == {h.dtype[i] : i \in {k \in 1..Len(h.dtype) : ~h.dtype[k].spacer}}
    IN  [name \in {m.name : m \in ms} |->
            h.data[(CHOOSE m \in ms : m.name = name).offset]]

(* Header._from_bytes_version: np.frombuffer(b, dtype, 1)[0] *)
(* cls(np.frombuffer(b, dtype, 1)[0]) *)
header_of_record(b, dt) ==
    IF Len(b) < itemsize(dt.dtype) THEN Err("ValueError")
    ELSE Ok([dtype |-> dt.dtype,
             data  |-> [o \in {dt.dtype[i].offset : i \in 1..Len(dt.dtype)} |->
                          member_value(CHOOSE m \in {dt.dtype[i] :
                                           i \in 1..Len(dt.dtype)} : m.offset = o, b)]])

from_bytes_version(b, version, meta) ==
    Then(IF version \in DOMAIN COMPOUND_SPECS THEN Ok(COMPOUND_SPECS[version])
         ELSE make_compound_dtype(version, meta),
         LAMBDA dt : header_of_record(b, dt))

(* Header.from_bytes: the version-0 record, then the record of its version *)
(* with the version-0 Header as the known metadata.                        *)
header_from_bytes(b) ==
    Then(from_bytes_version(b, 0, EmptyDict), LAMBDA mini :
        from_bytes_version(b, header_fields(mini)["FileVersion"].v, header_fields(mini)))

member_bytes(m, value) ==
    IF value.t = "ndarray" THEN tobytes(value, "C") ELSE ItemEncode(m.dtype, value.v)

(* Header.to_bytes: the record's memory, member after member. *)
RECURSIVE members_bytes(_, _)
members_bytes(dtype, data) ==
    IF Len(dtype) = 0 THEN <<>>
    ELSE member_bytes(Head(dtype), data[Head(dtype).offset])
         \o members_bytes(Tail(dtype), data)

header_to_bytes(h) == members_bytes(h.dtype, h.data)

(* Header.to_dict(is_jso) *)
header_to_dict(h, is_jso) ==
    IF is_jso THEN metadata_to_jso(header_fields(h)) ELSE Ok(header_fields(h))

(* np.array([tuple(values)], dtype)[0]: each value cast to its member's    *)
(* dtype and shape.                                                        *)
member_cast(m, value) ==
    IF Len(m.shape) = 0
    THEN NpScalar(m.dtype, ItemDecode(m.dtype, ItemEncode(m.dtype, value.v)))
    ELSE Array(m.dtype, m.shape, value.el)

(* Header.from_dict: the fields of d and zeros for the spacers, in offset  *)
(* order.                                                                  *)
header_from_dict(d, is_jso) ==
    IF "FileVersion" \notin DOMAIN d THEN Err("KeyError")
    ELSE LET ver == d["FileVersion"].v
             spec == [o \in {SORTED_SPECS[ver][i].offset :
                                  i \in 1..Len(SORTED_SPECS[ver])} |->
                         CHOOSE l \in {SORTED_SPECS[ver][i] :
                                  i \in 1..Len(SORTED_SPECS[ver])} : l.offset = o]
         IN  Then(IF ver \in DOMAIN COMPOUND_SPECS THEN Ok(COMPOUND_SPECS[ver])
                  ELSE make_compound_dtype(ver, d),
                  LAMBDA dt :
                     IF \E o \in DOMAIN spec : spec[o].name \notin DOMAIN d
                     THEN Err("KeyError")
                     ELSE Ok([dtype |-> dt.dtype,
                              data  |-> [o \in DOMAIN spec \cup DOMAIN dt.spacers |->
                                  IF o \in DOMAIN spec
                                  THEN member_cast(
                                           CHOOSE m \in {dt.dtype[i] :
                                               i \in 1..Len(dt.dtype)} : m.offset = o,
                                           IF is_jso
                                           THEN jso_to_dtype(spec[o], d[spec[o].name])
                                           ELSE d[spec[o].name])
                                  ELSE Array(U1, <<dt.spacers[o]>>,
                                             [idx \in Indices(<<dt.spacers[o]>>) |-> 0])]]))

(***************************************************************************)
(* utils: channels, containers and reconstruction                          *)
(***************************************************************************)
(* get_channel_names: the dataset name of each slot 1..4 whose flag is     *)
(* set, in slot order.                                                     *)
(* A faulty variant of channel_names_from: every slot from input_id on is  *)
(* named, whatever its flag.  The selection of C12 does not survive it.    *)
channel_names_all(meta, input_id) ==
    [i \in 1..(5 - input_id) |-> DATASET_PREFIX \o ToString(input_id + i - 1)]

RECURSIVE channel_names_from(_, _)
channel_names_from(meta, input_id) ==
    IF input_id > 4 THEN <<>>
    ELSE LET ds == DATASET_PREFIX \o ToString(input_id)
         IN  IF meta[ds].v # 0 THEN <<ds>> \o channel_names_from(meta, input_id + 1)
             ELSE channel_names_from(meta, input_id + 1)

get_channel_names(meta) == channel_names_from(meta, 1)

(* data[idx] of a 3-D array: the 2-D array at 0-based position idx of the  *)
(* first axis.                                                             *)
sub_array(data, idx) ==
    Array(data.dtype, Tail(data.shape),
          [ij \in Indices(Tail(data.shape)) |-> data.el[<<idx>> \o ij]])

(* np.stack(arrays, axis=0) of arrays of one shape and dtype. *)
np_stack(arrays) ==
    LET shape == <<Len(arrays)>> \o arrays[1].shape
    IN  Array(arrays[1].dtype, shape,
              [idx \in Indices(shape) |-> arrays[Head(idx) + 1].el[Tail(idx)]])

(* A container group: its attributes, its datasets, whether it has the     *)
(* additional-metadata subgroup, and what of these the last flush put in   *)
(* the file.                                                               *)
EmptyGroup ==
    [attrs |-> EmptyDict, ds |-> EmptyDict, sub |-> FALSE,
     flushed |-> [attrs |-> EmptyDict, ds |-> EmptyDict, sub |-> FALSE]]

(* A faulty variant of flush: nothing reaches the file.  The ordering of   *)
(* C8 does not survive it.                                                 *)
flush_nothing(g) == g

(* h5.flush() *)
flush(g) == [g EXCEPT !.flushed = [attrs |-> g.attrs, ds |-> g.ds, sub |-> g.sub]]

(* attrs.update(d) *)
attrs_update(g, d) == [g EXCEPT !.attrs = d @@ g.attrs]

(* create_dataset(name, data=arr): fails when the name is taken. *)
create_dataset(g, name, arr) ==
    IF name \in DOMAIN g.ds THEN Err("ValueError")
    ELSE Ok([g EXCEPT !.ds = (name :> arr) @@ g.ds])

(* as_bytes(g.get(name)): the bytes of a stored uint8 dataset, b"" when    *)
(* the group has no such dataset.                                          *)
get_as_bytes(g, name) == IF name \in DOMAIN g.ds THEN g.ds[name] ELSE <<>>

(* A faulty variant of md5sum: one digest for all byte sequences.  The     *)
(* cross-check of C10 does not survive it.                                 *)
md5sum_constant(b) == [md5 |-> <<>>]

(* md5sum: a digest, equal for equal byte sequences only. *)
md5sum(b) == [md5 |-> b]

(* A faulty variant of to_stack_from: the slots taken from 4 down to 1.    *)
(* The round trip of C2 does not survive it.                               *)
RECURSIVE to_stack_descending(_, _)
to_stack_descending(g, input_id) ==
    IF input_id > 4 THEN <<>>
    ELSE to_stack_descending(g, input_id + 1)
         \o (IF DATASET_PREFIX \o ToString(input_id) \in DOMAIN g.ds
             THEN <<g.ds[DATASET_PREFIX \o ToString(input_id)]>> ELSE <<>>)

RECURSIVE to_stack_from(_, _)
to_stack_from(g, input_id) ==
    IF input_id > 4 THEN <<>>
    ELSE LET ds_name == DATASET_PREFIX \o ToString(input_id)
         IN  IF ds_name \notin DOMAIN g.ds THEN to_stack_from(g, input_id + 1)
             ELSE <<g.ds[ds_name]>> \o to_stack_from(g, input_id + 1)

(* A faulty variant of join: the bytes are never cut.  The clipping of C11 *)
(* does not survive it.                                                    *)
join_uncut(header, b, footer, expected_len) == Ok(header \o b \o footer)

(* header + b + footer, cut to the expected length when longer. *)
join(header, b, footer, expected_len) ==
    IF Len(header) + Len(b) + Len(footer) > expected_len
    THEN Ok(Slice(header \o b \o footer, 0, expected_len))
    ELSE Ok(header \o b \o footer)

group_to_bytes(g, json_metadata, check_header) ==
    IF DAT_NBYTES_FIELD \notin DOMAIN g.attrs THEN Err("KeyError")
    ELSE Then(IF json_metadata THEN metadata_to_numpy(g.attrs) ELSE Ok(g.attrs),
              LAMBDA meta :
         Then(write_header(meta), LAMBDA header :
            IF check_header /\ Len(get_as_bytes(g, HEADER_DS)) > 0
                  /\ md5sum(get_as_bytes(g, HEADER_DS)) # md5sum(header)
            THEN Err("RuntimeError")
            ELSE IF Len(to_stack_from(g, 1)) = 0 THEN Err("ValueError")
            ELSE join(header, tobytes(np_stack(to_stack_from(g, 1)), "F"),
                      get_as_bytes(g, FOOTER_DS), g.attrs[DAT_NBYTES_FIELD].v)))

(* A faulty variant of hdf5_to_bytes: a group without a true completion   *)
(* flag is refused.  The reconstruction of C29 does not survive it.        *)
hdf5_to_bytes_strict(g) ==
    IF COMPLETE_FIELD \notin DOMAIN g.attrs \/ ~g.attrs[COMPLETE_FIELD].v
    THEN Err("RuntimeError")
    ELSE group_to_bytes(g, FALSE, TRUE)

(* hdf5_to_bytes: a missing completion flag is logged, nothing more. *)
hdf5_to_bytes(g) == group_to_bytes(g, FALSE, TRUE)

(***************************************************************************)
(* The .dat files given to the tools                                       *)
(***************************************************************************)
MaxRes == 2
MaxTrunc == 2

(* The first four bytes of the files.  (Integers here are 32-bit signed, so *)
(* the four-byte unsigned fields of the files hold values below 2^31.)     *)
MAGIC == <<83, 237, 245, 242>>
FOOTR == <<70, 79, 79, 84, 82>>

(* What a file is made of: its version, the channel count, the slots       *)
(* flagged present, the resolution, the bit-depth flag, the Mode byte, the *)
(* MachineID bytes, a byte in an unused region of the header, the payload  *)
(* pattern, the footer and the number of payload bytes missing at the end. *)
File(ver, num, chans, x, y, eight, mode, mid, junk, pay, foot, trunc) ==
    [ver |-> ver, num |-> num, chans |-> chans, x |-> x, y |-> y,
     eight |-> eight, mode |-> mode, mid |-> mid, junk |-> junk, pay |-> pay,
     foot |-> foot, trunc |-> trunc]

(* The header bytes, written byte by byte at the positions of the layout. *)
HeaderOf(f) ==
    LET n == f.num
    IN  [i \in 1..HEADER_LENGTH |->
            LET o == i - 1
            IN  CASE o \in 0..3 -> MAGIC[o + 1]
                  [] o = 5 -> f.ver
                  [] o \in 8..11 -> f.mid[o - 7]
                  [] o = 32 -> n
                  [] o = 33 -> f.eight
                  [] o = 34 -> f.mode
                  [] o \in 36..(35 + 4 * n) /\ f.ver = 8 -> 200 + (o - 36)
                  [] o = 103 -> f.x
                  [] o = 107 -> f.y
                  [] o \in 151..154 -> IF (o - 150) \in f.chans THEN 1 ELSE 0
                  [] o = 300 -> f.junk
                  [] OTHER -> 0]

PayloadLen(f) ==
    f.num * f.x * f.y * (IF f.eight # 0 THEN 1 ELSE 2)

(* The payload bytes: counting up from 0, or down from 255. *)
PayloadOf(f) ==
    [i \in 1..PayloadLen(f) |-> IF f.pay = "up" THEN (i - 1) % 256 ELSE (256 - i) % 256]

(* A truncated file ends trunc bytes before the end of its payload: in    *)
(* the payload, or in the header when more bytes are missing than the     *)
(* payload holds.                                                         *)
BytesOf(f) ==
    IF f.trunc = 0 THEN HeaderOf(f) \o PayloadOf(f) \o f.foot
    ELSE SubSeq(HeaderOf(f) \o PayloadOf(f), 1,
                HEADER_LENGTH + PayloadLen(f) - f.trunc)

ChanSets == {{1}, {1, 2}, {2, 4}}

Plain ==
    {File(v, Cardinality(c), c, x, y, e, 0, <<65, 0, 66, 0>>, 0, p, ft, 0) :
        v \in {7, 8}, c \in ChanSets, x \in 1..MaxRes, y \in 1..MaxRes,
        e \in {0, 1}, p \in {"up"}, ft \in {<<>>, FOOTR}}

Base(v) == File(v, 2, {1, 2}, 2, 1, 0, 1, <<65, 66, 67, 68>>, 0, "down", FOOTR, 0)

(* A file of 102 bytes: it ends inside the four bytes of XResolution. *)
CutInHeader == [Base(7) EXCEPT !.trunc = PayloadLen(Base(7)) + HEADER_LENGTH - 102]

Variants ==
    {[Base(v) EXCEPT !.mode = m] : v \in {7, 8}, m \in {1, 5}}
    \cup {[Base(7) EXCEPT !.mid = s] :
            s \in {<<0, 0, 0, 0>>, <<195, 169, 0, 0>>, <<255, 65, 0, 0>>}}
    \cup {[Base(v) EXCEPT !.junk = 9] : v \in {7, 8}}
    \cup {[Base(v) EXCEPT !.trunc = k, !.eight = e] :
            v \in {7}, k \in 1..MaxTrunc, e \in {0, 1}}
    \cup {[Base(7) EXCEPT !.num = 1], [Base(7) EXCEPT !.chans = {3}]}
    \cup {Base(9)}
    \cup {CutInHeader}
    \cup {[Base(7) EXCEPT !.eight = 2]}

(* The layout scenario: version 7, two channels of 4 x 3 one-byte          *)
(* elements holding 0..23, and the footer "FOOTR".                         *)
Scenario == File(7, 2, {1, 2}, 4, 3, 1, 0, <<0, 0, 0, 0>>, 0, "up", FOOTR, 0)

Files == Plain \cup Variants \cup {Scenario}

(* A file of the format: a known version, zeros in the unused ranges of    *)
(* the header, and one payload sub-array per slot flagged present.         *)
WellFormed(f) ==
    f.ver \in DOMAIN SPECS /\ f.junk = 0 /\ f.num = Cardinality(f.chans)

None == [ok |-> FALSE, err |-> "None"]

(* The names of the fields of the schemas of the registry. *)
FieldNames == UNION {{SPECS[v][i].name : i \in 1..Len(SPECS[v])} : v \in DOMAIN SPECS}

(***************************************************************************)
(* State: the .dat file and whether it still exists, the step the session  *)
(* is at, the results of the codec calls, the conversion in progress (cv), *)
(* the container group (g), the options of the last reconstruction or      *)
(* verification (opts), the reconstructed bytes and the verifier's exit    *)
(* status.                                                                 *)
(***************************************************************************)
VARIABLES file, dat, datExists, pc, meta, enc, re, jso, back,
          hdr, hbytes, hjso, hback, parsed, cv, g, opts, recon, ret,
          tsv, loaded, registry, target

vars == <<file, dat, datExists, pc, meta, enc, re, jso, back,
          hdr, hbytes, hjso, hback, parsed, cv, g, opts, recon, ret,
          tsv, loaded, registry, target>>

codec == <<meta, enc, re, jso, back>>
compound == <<hdr, hbytes, hjso, hback>>
store == <<cv, g, opts, recon, ret>>

FillValues == {NoFill, Fill(0), Fill(7)}

Init ==
    /\ file \in Files
    /\ dat = BytesOf(file)
    /\ datExists = TRUE
    /\ pc = "start"
    /\ meta = None /\ enc = None /\ re = None /\ jso = None /\ back = None
    /\ hdr = None /\ hbytes = None /\ hjso = None /\ hback = None
    /\ parsed = None
    /\ cv = None
    /\ g = EmptyGroup
    /\ opts = None
    /\ recon = None
    /\ ret = None
    /\ tsv = None
    /\ loaded = None
    /\ registry = Imported
    /\ target = None

(* The header of the file as parse_file and Header.from_file read it. *)
header_bytes == Slice(dat, 0, HEADER_LENGTH)

(* The entries of a decoded header that encode reads: derived entries (the *)
(* enum names, the byte count) removed.                                    *)
strip_derived(m) ==
    [k \in {n \in DOMAIN m :
              \E i \in 1..Len(SPECS[m["FileVersion"].v]) :
                  SPECS[m["FileVersion"].v][i].name = n} |-> m[k]]

(***************************************************************************)
(* The header codec of utils.py                                            *)
(***************************************************************************)
(* parse_file (the first HEADER_LENGTH bytes) or parse_bytes of the whole  *)
(* buffer.                                                                 *)
ParseHeader(name_enums, whole) ==
    /\ pc = "start"
    /\ meta' = parse_bytes(IF whole THEN dat ELSE header_bytes, name_enums)
    /\ opts' = [name_enums |-> name_enums, whole |-> whole]
    /\ pc' = IF meta'.ok THEN "u_parsed" ELSE "u_failed"
    /\ UNCHANGED <<file, tsv, loaded, registry, target, dat, datExists, enc, re, jso, back, parsed>>
    /\ UNCHANGED <<compound, cv, g, recon, ret>>

EncodeHeader ==
    /\ pc = "u_parsed"
    /\ enc' = write_header(meta.val)
    /\ pc' = "u_encoded"
    /\ UNCHANGED <<file, tsv, loaded, registry, target, dat, datExists, meta, re, jso, back, parsed>>
    /\ UNCHANGED <<compound, store>>

(* The decoded header without the names of its enum values. *)
without_enum_names(m) ==
    [k \in DOMAIN m \ {f \o ENUM_NAME_SUFFIX : f \in DOMAIN ENUMS} |-> m[k]]

(* write_header of the decoded header, the enum names removed. *)
EncodeBare ==
    /\ pc = "u_parsed"
    /\ enc' = write_header(without_enum_names(meta.val))
    /\ pc' = "u_bare"
    /\ UNCHANGED <<file, tsv, loaded, registry, target, dat, datExists, meta, re, jso, back, parsed>>
    /\ UNCHANGED <<compound, store>>

(* The mapping m without one of its entries. *)
without_field(m, field) == [k \in DOMAIN m \ {field} |-> m[k]]

(* write_header and Header.from_dict of the decoded header, one field of   *)
(* its schema removed.                                                     *)
EncodeMissing(field) ==
    /\ pc = "u_parsed"
    /\ field \in DOMAIN strip_derived(meta.val)
    /\ enc' = write_header(without_field(meta.val, field))
    /\ hback' = header_from_dict(without_field(meta.val, field), FALSE)
    /\ opts' = [name_enums |-> opts.name_enums, whole |-> opts.whole,
                missing |-> field]
    /\ pc' = "u_missing"
    /\ registry' = IF field = "FileVersion" THEN registry
                   ELSE [registry EXCEPT !.COMPOUND_SPECS =
                            compound_specs_after(@, file.ver,
                                                 without_field(meta.val, field))]
    /\ UNCHANGED <<file, tsv, loaded, target, dat, datExists, meta, re, jso, back, parsed>>
    /\ UNCHANGED <<hdr, hbytes, hjso, cv, g, recon, ret>>

(* decode(encode(strip_derived(meta))), decoding as meta was decoded. *)
Reparse ==
    /\ pc = "u_parsed"
    /\ re' = Then(write_header(strip_derived(meta.val)), LAMBDA e :
                parse_bytes(e, opts.name_enums))
    /\ pc' = "u_reparsed"
    /\ UNCHANGED <<file, tsv, loaded, registry, target, dat, datExists, meta, enc, jso, back, parsed>>
    /\ UNCHANGED <<compound, store>>

ToJso ==
    /\ pc = "u_parsed"
    /\ jso' = metadata_to_jso(meta.val)
    /\ pc' = IF jso'.ok THEN "u_jso" ELSE "u_jso_failed"
    /\ UNCHANGED <<file, tsv, loaded, registry, target, dat, datExists, meta, enc, re, back, parsed>>
    /\ UNCHANGED <<compound, store>>

FromJso ==
    /\ pc = "u_jso"
    /\ back' = metadata_to_numpy(jso.val)
    /\ pc' = "u_back"
    /\ UNCHANGED <<file, tsv, loaded, registry, target, dat, datExists, meta, enc, re, jso, parsed>>
    /\ UNCHANGED <<compound, store>>

(***************************************************************************)
(* The compound Header of compound.py                                      *)
(***************************************************************************)
HeaderFromFile ==
    /\ pc = "start"
    /\ hdr' = header_from_bytes(header_bytes)
    /\ pc' = IF hdr'.ok THEN "h_parsed" ELSE "h_failed"
    /\ registry' = [registry EXCEPT !.COMPOUND_SPECS =
                        compound_specs_after(@, file.ver, EmptyDict)]
    /\ UNCHANGED <<file, tsv, loaded, target, dat, datExists, hbytes, hjso, hback, parsed>>
    /\ UNCHANGED <<codec, store>>

HeaderToBytes ==
    /\ pc = "h_parsed"
    /\ hbytes' = Ok(header_to_bytes(hdr.val))
    /\ pc' = "h_bytes"
    /\ UNCHANGED <<file, tsv, loaded, registry, target, dat, datExists, hdr, hjso, hback, parsed>>
    /\ UNCHANGED <<codec, store>>

HeaderToDict ==
    /\ pc = "h_parsed"
    /\ hjso' = header_to_dict(hdr.val, TRUE)
    /\ pc' = IF hjso'.ok THEN "h_jso" ELSE "h_jso_failed"
    /\ UNCHANGED <<file, tsv, loaded, registry, target, dat, datExists, hdr, hbytes, hback, parsed>>
    /\ UNCHANGED <<codec, store>>

HeaderFromDict ==
    /\ pc = "h_jso"
    /\ hback' = header_from_dict(hjso.val, TRUE)
    /\ pc' = "h_back"
    /\ registry' = [registry EXCEPT !.COMPOUND_SPECS =
                        compound_specs_after(@, file.ver, hjso.val)]
    /\ UNCHANGED <<file, tsv, loaded, target, dat, datExists, hdr, hbytes, hjso, parsed>>
    /\ UNCHANGED <<codec, store>>

(***************************************************************************)
(* ParsedData.from_bytes on the whole file                                 *)
(***************************************************************************)
FromBytes(name_enums, fill) ==
    /\ pc = "start"
    /\ parsed' = from_bytes(dat, name_enums, fill)
    /\ opts' = [name_enums |-> name_enums, fill |-> fill]
    /\ pc' = IF parsed'.ok THEN "p_done" ELSE "p_failed"
    /\ UNCHANGED <<file, tsv, loaded, registry, target, dat, datExists, cv, g, recon, ret>>
    /\ UNCHANGED <<codec, compound>>


(***************************************************************************)
(* dat_to_hdf5, one step of the function at a time                         *)
(***************************************************************************)
PyBool(v) == [t |-> "bool", v |-> v]

(* split_channels: the decoded fields, the names of the slots flagged      *)
(* present and the payload array of the file.                              *)
split_channels(b) ==
    Then(from_bytes(b, TRUE, NoFill), LAMBDA p :
        Ok([meta |-> p.meta,
            channel_names |-> get_channel_names(p.meta),
            data |-> p.data]))

(* The call, up to the opening of the container. *)
ConvSplit(additional_metadata) ==
    /\ pc = "start"
    /\ cv' = Then(split_channels(dat), LAMBDA s :
                Ok([meta |-> s.meta, channel_names |-> s.channel_names,
                    data |-> s.data, idx |-> 0,
                    additional_metadata |-> additional_metadata]))
    /\ pc' = IF cv'.ok THEN "c_attrs" ELSE "c_failed"
    /\ UNCHANGED <<file, tsv, loaded, registry, target, dat, datExists, parsed, g, opts, recon, ret>>
    /\ UNCHANGED <<codec, compound>>

(* g.attrs.update(meta) *)
ConvAttrs ==
    /\ pc = "c_attrs"
    /\ g' = attrs_update(g, cv.val.meta)
    /\ pc' = "c_data"
    /\ UNCHANGED <<file, tsv, loaded, registry, target, dat, datExists, parsed, cv, opts, recon, ret>>
    /\ UNCHANGED <<codec, compound>>

(* One turn of the loop over channel_names: data[idx], then create_dataset. *)
ConvDataset ==
    /\ pc = "c_data"
    /\ cv.val.idx < Len(cv.val.channel_names)
    /\ LET idx     == cv.val.idx
           ds_name == cv.val.channel_names[idx + 1]
           made    == IF idx >= cv.val.data.shape[1] THEN Err("IndexError")
                      ELSE create_dataset(g, ds_name, sub_array(cv.val.data, idx))
       IN  IF made.ok
           THEN /\ g' = made.val
                /\ cv' = [cv EXCEPT !.val.idx = idx + 1]
                /\ pc' = "c_data"
           ELSE /\ g' = g
                /\ cv' = made
                /\ pc' = "c_failed"
    /\ UNCHANGED <<file, tsv, loaded, registry, target, dat, datExists, parsed, opts, recon, ret>>
    /\ UNCHANGED <<codec, compound>>

(* After the loop: the additional-metadata subgroup, when asked for. *)
ConvExtra ==
    /\ pc = "c_data"
    /\ cv.val.idx = Len(cv.val.channel_names)
    /\ g' = IF cv.val.additional_metadata THEN [g EXCEPT !.sub = TRUE] ELSE g
    /\ pc' = "c_flush"
    /\ UNCHANGED <<file, tsv, loaded, registry, target, dat, datExists, parsed, cv, opts, recon, ret>>
    /\ UNCHANGED <<codec, compound>>

ConvFlush ==
    /\ pc = "c_flush"
    /\ g' = flush(g)
    /\ pc' = "c_flag"
    /\ UNCHANGED <<file, tsv, loaded, registry, target, dat, datExists, parsed, cv, opts, recon, ret>>
    /\ UNCHANGED <<codec, compound>>

(* g.attrs["_is_complete"] = True *)
ConvComplete ==
    /\ pc = "c_flag"
    /\ g' = attrs_update(g, COMPLETE_FIELD :> PyBool(TRUE))
    /\ pc' = "converted"
    /\ UNCHANGED <<file, tsv, loaded, registry, target, dat, datExists, parsed, cv, opts, recon, ret>>
    /\ UNCHANGED <<codec, compound>>

(* A call into the container raises (the disk is full, the process is      *)
(* interrupted): the with-block is left with what was written so far.      *)
ConvAbort ==
    /\ pc \in {"c_attrs", "c_data", "c_flush", "c_flag"}
    /\ cv' = Err("OSError")
    /\ pc' = "c_failed"
    /\ UNCHANGED <<file, tsv, loaded, registry, target, dat, datExists, parsed, g, opts, recon, ret>>
    /\ UNCHANGED <<codec, compound>>

(***************************************************************************)
(* A container filled from the parts of a file, and its reconstruction     *)
(***************************************************************************)
(* The datasets of the channels: data[idx] under the idx-th present name.  *)
RECURSIVE channel_datasets(_, _, _)
channel_datasets(channel_names, data, idx) ==
    IF idx >= Len(channel_names) \/ idx >= data.shape[1] THEN EmptyDict
    ELSE (channel_names[idx + 1] :> sub_array(data, idx))
             @@ channel_datasets(channel_names, data, idx + 1)

(* The group that holds the parts of a split file: the decoded fields as   *)
(* attributes, a dataset per present channel, and the raw header and       *)
(* footer bytes as the datasets group_to_bytes looks for.                  *)
store_parts(p, raw_header, raw_footer) ==
    [EmptyGroup EXCEPT
        !.attrs = p.meta,
        !.ds = channel_datasets(get_channel_names(p.meta), p.data, 0)
                 @@ (IF raw_header THEN HEADER_DS :> p.header ELSE EmptyDict)
                 @@ (IF raw_footer THEN FOOTER_DS :> p.footer ELSE EmptyDict)]

StoreParts(raw_header, raw_footer) ==
    /\ pc = "p_done"
    /\ g' = flush(store_parts(parsed.val, raw_header, raw_footer))
    /\ opts' = [raw_header |-> raw_header, raw_footer |-> raw_footer]
    /\ pc' = "stored"
    /\ UNCHANGED <<file, tsv, loaded, registry, target, dat, datExists, parsed, cv, recon, ret>>
    /\ UNCHANGED <<codec, compound>>

(* A container whose recorded byte count is not the length of its parts:   *)
(* the count of a file that ended before the end of the stored parts, or   *)
(* the count that parse_file records (the header alone).                   *)
RecordedCounts == {Len(dat) - k : k \in 1..MaxTrunc} \cup {HEADER_LENGTH}

StoreTruncated(n) ==
    /\ pc = "stored"
    /\ g' = flush(attrs_update(g, DAT_NBYTES_FIELD :> NpScalar(DType("u", 8), n)))
    /\ pc' = "stored_short"
    /\ UNCHANGED <<file, tsv, loaded, registry, target, dat, datExists, parsed, cv, opts, recon, ret>>
    /\ UNCHANGED <<codec, compound>>

GroupToBytes(check_header) ==
    /\ pc \in {"stored", "stored_short"}
    /\ recon' = group_to_bytes(g, FALSE, check_header)
    /\ opts' = [check_header |-> check_header]
    /\ pc' = IF pc = "stored" THEN "g_done" ELSE "g_clipped"
    /\ UNCHANGED <<file, tsv, loaded, registry, target, dat, datExists, parsed, cv, g, ret>>
    /\ UNCHANGED <<codec, compound>>

(***************************************************************************)
(* verify.main on the .dat file and the converted group                    *)
(***************************************************************************)
(* A faulty variant of compare: the .dat file is unlinked whenever         *)
(* --delete-dat is given.  The deletion safety of C9 does not survive it.  *)
compare_unlink_always(dat_bytes, hdf5_bytes, delete_dat, strict) ==
    [ret |-> IF dat_bytes # hdf5_bytes THEN 1 ELSE 0, unlink |-> delete_dat]

(* The comparison of main: what it returns, and whether it unlinks the     *)
(* .dat file.                                                              *)
compare(dat_bytes, hdf5_bytes, delete_dat, strict) ==
    LET d == IF strict THEN [noop |-> dat_bytes] ELSE md5sum(dat_bytes)
        h == IF strict THEN [noop |-> hdf5_bytes] ELSE md5sum(hdf5_bytes)
    IN  IF d # h THEN [ret |-> 1, unlink |-> FALSE]
        ELSE [ret |-> 0, unlink |-> delete_dat]

VerifyMain(delete_dat, strict) ==
    /\ pc \in {"converted", "c_failed"}
    /\ datExists
    /\ opts' = [delete_dat |-> delete_dat, strict |-> strict]
    /\ recon' = hdf5_to_bytes(g)
    /\ IF recon'.ok
       THEN LET c == compare(dat, recon'.val, delete_dat, strict)
            IN  /\ ret' = Ok(c.ret)
                /\ datExists' = IF c.unlink THEN FALSE ELSE datExists
                /\ pc' = "v_done"
       ELSE /\ ret' = recon'
            /\ datExists' = datExists
            /\ pc' = "v_raised"
    /\ UNCHANGED <<file, tsv, loaded, registry, target, dat, parsed, cv, g>>
    /\ UNCHANGED <<codec, compound>>

(***************************************************************************)
(* dat2hdf5-verify --write-dat                                             *)
(***************************************************************************)
(* A str is the sequence of its characters.  str.strip() drops the blanks  *)
(* at both ends; str.lower() maps the capitals to small letters.           *)
RECURSIVE lstrip(_)
lstrip(str) ==
    IF Len(str) > 0 /\ Head(str) = " " THEN lstrip(Tail(str)) ELSE str

RECURSIVE rstrip(_)
rstrip(str) ==
    IF Len(str) > 0 /\ str[Len(str)] = " "
    THEN rstrip(SubSeq(str, 1, Len(str) - 1)) ELSE str

strip(str) == rstrip(lstrip(str))

lower_char(c) ==
    CASE c = "Y" -> "y" [] c = "E" -> "e" [] c = "S" -> "s"
      [] c = "N" -> "n" [] c = "O" -> "o" [] OTHER -> c

lower(str) == [i \in 1..Len(str) |-> lower_char(str[i])]

(* What is typed at the prompt. *)
Responses ==
    {<<>>, <<"y", "e", "s">>, <<" ", "y", "e", "s", " ">>, <<"Y", "E", "S">>,
     <<"n">>, <<"N", "o">>, <<"m">>}

(* warn: its first statement, kwargs.setdefault(file=sys.stderr), calls   *)
(* dict.setdefault with a keyword argument; that raises TypeError before   *)
(* anything is printed.                                                    *)
warn == Err("TypeError")

(* The value of a function that ends without a return statement. *)
PyNone == [t |-> "NoneType"]

(* What a call of write_dat leaves: the value returned or the exception    *)
(* raised, the bytes written to the target (None when nothing was), and    *)
(* the result of hdf5_to_bytes (None when it was not called).              *)
Outcome(result, written, reconstructed) ==
    [ret |-> result, written |-> written, recon |-> reconstructed]

(* write_dat(fpath, hdf5_path, group), with fpath.exists() and the line    *)
(* read by input() as arguments.                                           *)
write_dat(exists, response, grp) ==
    IF exists
    THEN Outcome(Then(warn, LAMBDA w : Ok(2)), None, None)
    ELSE IF ~warn.ok THEN Outcome(warn, None, None)
    ELSE IF strip(response) # <<"y", "e", "s">>
    THEN IF lower(strip(response)) \in {<<>>, <<"n">>, <<"n", "o">>}
         THEN Outcome(Then(warn, LAMBDA w : Ok(0)), None, None)
         ELSE Outcome(Then(warn, LAMBDA w : Ok(2)), None, None)
    ELSE LET b == hdf5_to_bytes(grp)
         IN  IF b.ok THEN Outcome(Ok(PyNone), b, b) ELSE Outcome(b, None, b)

(* main with --write-dat, after a conversion: the target is the path given *)
(* (or the standard output).                                               *)
WriteDat(exists, response) ==
    /\ pc = "converted"
    /\ opts' = [exists |-> exists, response |-> response]
    /\ ret' = write_dat(exists, response, g).ret
    /\ target' = write_dat(exists, response, g).written
    /\ recon' = write_dat(exists, response, g).recon
    /\ pc' = "w_done"
    /\ UNCHANGED <<file, tsv, loaded, registry, dat, datExists, parsed, cv, g>>
    /\ UNCHANGED <<codec, compound>>

Next ==
    \/ \E ne \in BOOLEAN, w \in BOOLEAN : ParseHeader(ne, w)
    \/ EncodeHeader
    \/ EncodeBare
    \/ \E field \in FieldNames : EncodeMissing(field)
    \/ Reparse
    \/ ToJso
    \/ FromJso
    \/ HeaderFromFile
    \/ HeaderToBytes
    \/ HeaderToDict
    \/ HeaderFromDict
    \/ \E ne \in BOOLEAN, fill \in FillValues : FromBytes(ne, fill)
    \/ \E raw_header \in BOOLEAN, raw_footer \in BOOLEAN : StoreParts(raw_header, raw_footer)
    \/ \E n \in RecordedCounts : StoreTruncated(n)
    \/ \E check_header \in BOOLEAN : GroupToBytes(check_header)
    \/ \E additional_metadata \in BOOLEAN : ConvSplit(additional_metadata)
    \/ ConvAttrs
    \/ ConvDataset
    \/ ConvExtra
    \/ ConvFlush
    \/ ConvComplete
    \/ ConvAbort
    \/ \E delete_dat \in BOOLEAN, strict \in BOOLEAN : VerifyMain(delete_dat, strict)
    \/ \E exists \in BOOLEAN, response \in Responses : WriteDat(exists, response)

Spec == Init /\ [][Next]_vars

(***************************************************************************)
(* Loading the registry: the enumeration tables and the schemas are read   *)
(* from TSV files when the modules are imported                            *)
(***************************************************************************)
MaxRows == 3

EnumCodes == {0, 1}
EnumNames == {"A", "B"}

(* The rows of an enumeration file: up to MaxRows (code, name) pairs. *)
EnumFiles ==
    {[kind |-> "enum", rows |-> r] :
        r \in UNION {[1..n -> EnumCodes \X EnumNames] : n \in 0..MaxRows}}

(* The rows of the schema file of version 7: the two fields of version 0,  *)
(* a one-byte field A at offset 32 and a field B of two-byte items, before *)
(* or after A in the file, its shape a number or the field A.  B lies      *)
(* before A in the header (with a gap or without), over A, after A, or at  *)
(* the end of the header (ending at HEADER_LENGTH or past it).             *)
FieldA == Scalar("A", U1, 32)

FieldB(offset, shape) == SpecTuple("B", U2, offset, shape)

SchemaFiles ==
    {[kind |-> "spec",
      rows |-> SpecV0 \o (IF a_first THEN <<FieldA, FieldB(o, sh)>>
                                     ELSE <<FieldB(o, sh), FieldA>>)] :
        a_first \in BOOLEAN, o \in {24, 30, 36, 1020},
        sh \in {<<Ref("A")>>, <<Lit(2)>>, <<Lit(4)>>}}

LoadInit ==
    /\ file \in {Scenario, Base(7)}
    /\ dat = BytesOf(file)
    /\ datExists = TRUE
    /\ pc = "l_start"
    /\ meta = None /\ enc = None /\ re = None /\ jso = None /\ back = None
    /\ hdr = None /\ hbytes = None /\ hjso = None /\ hback = None
    /\ parsed = None
    /\ cv = None
    /\ g = EmptyGroup
    /\ opts = None
    /\ recon = None
    /\ ret = None
    /\ tsv \in EnumFiles \cup SchemaFiles
    /\ loaded = None
    /\ registry = Imported
    /\ target = None

(* EnumMapping.from_tsv: the table built from the rows of the file. *)
LoadEnum ==
    /\ pc = "l_start"
    /\ tsv.kind = "enum"
    /\ loaded' = EnumMapping(tsv.rows)
    /\ pc' = "l_enum"
    /\ UNCHANGED <<file, tsv, registry, target, dat, datExists, parsed, opts, ret>>
    /\ UNCHANGED <<codec, compound, cv, g, recon>>

(* get_value(get_name(value)) in the table that was built. *)
LookupEnum(value) ==
    /\ pc = "l_enum"
    /\ loaded.ok
    /\ ret' = Then(get_name(loaded.val, value), LAMBDA name :
                  get_value(loaded.val, name))
    /\ opts' = [value |-> value]
    /\ pc' = "l_looked"
    /\ UNCHANGED <<file, tsv, loaded, registry, target, dat, datExists, parsed>>
    /\ UNCHANGED <<codec, compound, cv, g, recon>>

(* What importing utils, specs and compound leaves for one schema file:    *)
(* the lines in file order (utils.SPECS), the lines sorted by offset       *)
(* (specs.SPECS) and the compound dtype, when make_compound_dtype builds   *)
(* it without a decoded header (a SelfReferentialSpecException is caught   *)
(* and the version is left out of COMPOUND_SPECS).                         *)
load_schema(rows) ==
    LET built == compound_dtype(sort_by_offset(rows), EmptyDict)
    IN  IF built.ok
        THEN Ok([utils |-> rows, specs |-> sort_by_offset(rows),
                 compound |-> <<built.val>>])
        ELSE IF built.err = "SelfReferentialSpecException"
        THEN Ok([utils |-> rows, specs |-> sort_by_offset(rows), compound |-> <<>>])
        ELSE built

LoadSchema ==
    /\ pc = "l_start"
    /\ tsv.kind = "spec"
    /\ loaded' = load_schema(tsv.rows)
    /\ pc' = "l_schema"
    /\ UNCHANGED <<file, tsv, registry, target, dat, datExists, parsed, opts, ret>>
    /\ UNCHANGED <<codec, compound, cv, g, recon>>

(* A header decoded with the schema that was loaded: _parse_with_version   *)
(* of utils, and Header._from_bytes_version with the version-0 Header as   *)
(* the known metadata.                                                     *)
DecodeLoaded ==
    /\ pc = "l_schema"
    /\ loaded.ok
    /\ meta' = parse_lines(loaded.val.utils, header_bytes, EmptyDict, FALSE)
    /\ hdr' = Then(from_bytes_version(header_bytes, 0, EmptyDict), LAMBDA mini :
                 Then(IF Len(loaded.val.compound) > 0 THEN Ok(loaded.val.compound[1])
                      ELSE compound_dtype(loaded.val.specs, header_fields(mini)),
                      LAMBDA dt : header_of_record(header_bytes, dt)))
    /\ pc' = "l_decoded"
    /\ UNCHANGED <<file, tsv, loaded, registry, target, dat, datExists, parsed, opts, ret>>
    /\ UNCHANGED <<enc, re, jso, back, hbytes, hjso, hback, cv, g, recon>>

LoadNext ==
    \/ LoadEnum
    \/ \E value \in EnumCodes : LookupEnum(value)
    \/ LoadSchema
    \/ DecodeLoaded

LoadSpec == LoadInit /\ [][LoadNext]_vars

(***************************************************************************)
(* Header round trips                                                      *)
(***************************************************************************)
(* The fields of the schema of a decoded header, as a set of lines. *)
lines_of(m) == {SPECS[m["FileVersion"].v][i] : i \in 1..Len(SPECS[m["FileVersion"].v])}

(* The 0-based positions that the bytes of a field cover. *)
covered(line, m) ==
    line.offset .. (line.offset + Len(item_bytes(m[line.name], line.dtype)) - 1)

C7_EncodeShape ==
    pc = "u_encoded" =>
        /\ enc.ok
        /\ Len(enc.val) = HEADER_LENGTH
        /\ \A line \in lines_of(meta.val) :
              Slice(enc.val, line.offset,
                    line.offset + Len(item_bytes(meta.val[line.name], line.dtype)))
                = item_bytes(meta.val[line.name], line.dtype)
        /\ \A i \in 0..(HEADER_LENGTH - 1) :
              (\A line \in lines_of(meta.val) : i \notin covered(line, meta.val))
                  => enc.val[i + 1] = 0

C7_Witness ==
    /\ pc = "u_encoded" /\ file.junk # 0 /\ file.ver = 8
    /\ enc.ok /\ Len(enc.val) = HEADER_LENGTH
    /\ enc.val[301] = 0 /\ header_bytes[301] # 0
    /\ Slice(enc.val, 36, 44) = Slice(header_bytes, 36, 44)

(***************************************************************************)
(* Splitting a file and joining its parts                                  *)
(***************************************************************************)
(* arr.flatten(order="F") of the idx-th channel of the payload array. *)
channel_flat(data, idx) == Ravel(sub_array(data, idx), "F")

C10_HeaderCrossCheck ==
    pc = "g_done" =>
        LET stored == get_as_bytes(g, HEADER_DS)
            fresh  == write_header(g.attrs)
        IN  /\ fresh.ok
            /\ IF opts.check_header /\ Len(stored) > 0 /\ stored # fresh.val
               THEN ~recon.ok /\ recon.err = "RuntimeError"
               ELSE recon.ok /\ Slice(recon.val, 0, HEADER_LENGTH) = fresh.val

C10_Witness ==
    /\ pc = "g_done" /\ opts.check_header /\ file.junk # 0
    /\ HEADER_DS \in DOMAIN g.ds /\ Len(g.ds[HEADER_DS]) = HEADER_LENGTH
    /\ write_header(g.attrs).ok /\ g.ds[HEADER_DS] # write_header(g.attrs).val
    /\ ~recon.ok /\ recon.err = "RuntimeError"

(***************************************************************************)
(* JSON-safe values and truncated payloads                                 *)
(***************************************************************************)
(* C4. JSON round-trip, as the specification words it: every decoded       *)
(* header converts to its JSON-safe form, and converting back gives the    *)
(* decoded value of every field, so that the rebuilt Header equals the     *)
(* original.                                                               *)
C4_AsStated ==
    /\ pc \notin {"u_jso_failed", "h_jso_failed"}
    /\ pc = "u_back" =>
          back.ok /\ \A k \in DOMAIN back.val : back.val[k] = meta.val[k]
    /\ pc = "h_back" /\ WellFormed(file) =>
          hback.ok /\ header_to_bytes(hback.val) = header_to_bytes(hdr.val)

(* C6. Payload truncation policy, as the specification words it: a file    *)
(* that misses the last bytes of its payload fails to decode when no fill  *)
(* value is given, and decodes to a payload array of the full shape whose  *)
(* trailing bytes are the fill value when one is given.                    *)
C6_AsStated ==
    pc \in {"p_done", "p_failed"} /\ file.trunc > 0 =>
        IF ~opts.fill.given THEN ~parsed.ok
        ELSE /\ parsed.ok
             /\ parsed.val.data.shape = <<file.num, file.x, file.y>>
             /\ file.eight = 1 =>
                  \A k \in 1..file.trunc :
                      tobytes(parsed.val.data, "F")[PayloadLen(file) + 1 - k]
                          = opts.fill.v

(***************************************************************************)
(* Conversion and verification                                             *)
(***************************************************************************)
(* C8. Completion flag ordering: the completion flag is in the group only  *)
(* when the header attributes, a dataset for every present channel and the *)
(* additional-metadata subgroup (when asked for) were written and flushed  *)
(* before it; a conversion that failed has left no flag.                   *)
C8_FlagOrdering ==
    /\ COMPLETE_FIELD \in DOMAIN g.attrs =>
        /\ cv.ok
        /\ g.attrs[COMPLETE_FIELD] = PyBool(TRUE)
        /\ \A k \in DOMAIN cv.val.meta :
              k \in DOMAIN g.flushed.attrs /\ g.flushed.attrs[k] = cv.val.meta[k]
        /\ \A i \in 1..Len(cv.val.channel_names) :
              /\ cv.val.channel_names[i] \in DOMAIN g.flushed.ds
              /\ g.flushed.ds[cv.val.channel_names[i]] = sub_array(cv.val.data, i - 1)
        /\ cv.val.additional_metadata => g.flushed.sub
        /\ COMPLETE_FIELD \notin DOMAIN g.flushed.attrs
    /\ pc \in {"c_failed", "c_attrs", "c_data", "c_flush", "c_flag"} =>
          COMPLETE_FIELD \notin DOMAIN g.attrs
    /\ ~cv.ok => COMPLETE_FIELD \notin DOMAIN g.attrs

C8_Witness ==
    /\ pc = "converted" /\ COMPLETE_FIELD \in DOMAIN g.attrs
    /\ cv.val.additional_metadata /\ g.flushed.sub
    /\ cv.val.channel_names = <<"AI2", "AI4">>
    /\ {"AI2", "AI4"} \subseteq DOMAIN g.flushed.ds

(* C9. Verification outcome and deletion safety: main returns 0 when the   *)
(* reconstructed bytes are those of the .dat file and 1 when they differ;  *)
(* the .dat file is deleted only by a run that returned 0 and was given    *)
(* --delete-dat, and it is never changed.                                  *)
C9_VerifyOutcome ==
    /\ pc = "v_done" =>
        /\ ret.ok /\ recon.ok
        /\ ret.val = (IF recon.val = dat THEN 0 ELSE 1)
        /\ datExists <=> ~(ret.val = 0 /\ opts.delete_dat)
    /\ ~datExists => pc = "v_done"
    /\ dat = BytesOf(file)

C9_Witness ==
    /\ pc = "v_done" /\ opts.delete_dat /\ ret.val = 1 /\ datExists
    /\ COMPLETE_FIELD \in DOMAIN g.attrs
    /\ recon.ok /\ recon.val # dat

(***************************************************************************)
(* Reconstruction against the recorded byte count                          *)
(***************************************************************************)
(* C11. Clipping to the recorded original length: group_to_bytes returns   *)
(* no more bytes than the byte count recorded in the group; when header +  *)
(* payload + footer is longer than that count, it returns exactly their    *)
(* first count bytes, and when it is not longer it returns them unchanged. *)
C11_Clipping ==
    pc \in {"g_done", "g_clipped"} /\ recon.ok =>
        LET n      == g.attrs[DAT_NBYTES_FIELD].v
            header == write_header(g.attrs).val
            b      == tobytes(np_stack(to_stack_from(g, 1)), "F")
            footer == get_as_bytes(g, FOOTER_DS)
            all_b  == header \o b \o footer
        IN  /\ Len(recon.val) <= n
            /\ IF Len(all_b) > n
               THEN Len(recon.val) = n
                    /\ \A i \in 1..n : recon.val[i] = all_b[i]
               ELSE recon.val = all_b
            /\ WellFormed(file) /\ FOOTER_DS \in DOMAIN g.ds
                  => recon.val = Slice(dat, 0, n)

C11_Witness ==
    /\ pc = "g_clipped" /\ recon.ok /\ file.foot = FOOTR
    /\ FOOTER_DS \in DOMAIN g.ds
    /\ g.attrs[DAT_NBYTES_FIELD].v = Len(dat) - 2
    /\ Len(recon.val) = Len(dat) - 2
    /\ recon.val = SubSeq(dat, 1, Len(dat) - 2)

(***************************************************************************)
(* The channels of a conversion                                            *)
(***************************************************************************)
(* The 0-based position of slot k among the slots flagged present. *)
present_index(k) == Cardinality({j \in file.chans : j < k})

(* C12. Channel selection: the channel names of a conversion are the slots *)
(* 1..4 whose flag is set in the header, in ascending slot order; when the *)
(* loop over them has ended, the group holds a dataset for each of these   *)
(* slots and for no other, and the dataset of the i-th present slot        *)
(* (0-based, among present slots only) is the payload array data[i].       *)
C12_ChannelSelection ==
    /\ cv.ok =>
          /\ Len(cv.val.channel_names) = Cardinality(file.chans)
          /\ \A k \in file.chans :
                cv.val.channel_names[present_index(k) + 1]
                    = DATASET_PREFIX \o ToString(k)
    /\ pc \in {"c_flush", "c_flag", "converted"} =>
          /\ DOMAIN g.ds = {DATASET_PREFIX \o ToString(k) : k \in file.chans}
          /\ Cardinality(DOMAIN g.ds) = Cardinality(file.chans)
          /\ \A k \in file.chans :
                LET arr == g.ds[DATASET_PREFIX \o ToString(k)]
                IN  /\ arr = sub_array(cv.val.data, present_index(k))
                    /\ arr.shape = <<file.x, file.y>>
                    /\ file.eight = 1 =>
                          \A x \in 0..(file.x - 1), y \in 0..(file.y - 1) :
                              arr.el[<<x, y>>]
                                = dat[HEADER_LENGTH + 1 + present_index(k)
                                          + file.num * (x + file.x * y)]

C12_Witness ==
    /\ pc = "converted" /\ file.chans = {2, 4} /\ file.eight = 1
    /\ file.x = 2 /\ file.y = 2
    /\ cv.val.channel_names = <<"AI2", "AI4">>
    /\ DOMAIN g.ds = {"AI2", "AI4"}
    /\ g.ds["AI4"] = sub_array(cv.val.data, 1)
    /\ g.ds["AI4"].el[<<1, 0>>] = 3

(***************************************************************************)
(* The parts of a split file                                               *)
(***************************************************************************)
(* C13. Footer rule, as the specification words it: the footer returned by *)
(* ParsedData.from_bytes is every byte after the header and the full       *)
(* payload; for a buffer that ends before the end of its payload, decoded  *)
(* with a fill value, no error is raised and the footer is empty.          *)
C13_AsStated ==
    /\ pc = "p_done" /\ file.trunc = 0 =>
          parsed.val.footer = Slice(dat, HEADER_LENGTH + PayloadLen(file), Len(dat))
    /\ pc \in {"p_done", "p_failed"} /\ file.trunc > 0 /\ opts.fill.given =>
          parsed.ok /\ parsed.val.footer = <<>>

(* C14. Raw record length: for a buffer that holds its whole payload, the  *)
(* header, the payload bytes and the footer that ParsedData.from_bytes     *)
(* returns add up to the length of the buffer, and they are the buffer cut *)
(* at the end of the header and at the end of the payload.                 *)
C14_RecordLength ==
    pc = "p_done" /\ file.trunc = 0 =>
        LET p == parsed.val
        IN  /\ Len(p.header) + Len(tobytes(p.data, DEFAULT_AXIS_ORDER)) + Len(p.footer)
                  = Len(dat)
            /\ Len(p.header) = HEADER_LENGTH
            /\ p.header \o tobytes(p.data, DEFAULT_AXIS_ORDER) \o p.footer = dat

C14_Witness ==
    /\ pc = "p_done" /\ file.trunc = 0 /\ file.eight = 0 /\ file.foot = FOOTR
    /\ file.num = 2 /\ file.x = 2 /\ file.y = 2
    /\ Len(parsed.val.header) = 1024
    /\ Len(tobytes(parsed.val.data, DEFAULT_AXIS_ORDER)) = 16
    /\ Len(parsed.val.footer) = 5
    /\ Len(dat) = 1045

(***************************************************************************)
(* Enumerated fields                                                       *)
(***************************************************************************)
(* C15. Enum duality: a header decoded with name_enums holds, for every    *)
(* field with an enumeration table, the integer of the file under the name *)
(* of the field and the table's name for that integer under the name of    *)
(* the field + suffix (decoded without name_enums it holds no such entry); *)
(* write_header does not read the name entry: the mapping without it       *)
(* encodes to the same bytes as the mapping with it.                       *)
C15_EnumDuality ==
    /\ pc \in {"u_parsed", "u_bare"} =>
          \A f \in DOMAIN ENUMS :
              /\ f \in DOMAIN meta.val
              /\ meta.val[f] = NpScalar(U1, file.mode)
              /\ IF opts.name_enums
                 THEN /\ (f \o ENUM_NAME_SUFFIX) \in DOMAIN meta.val
                      /\ meta.val[f \o ENUM_NAME_SUFFIX]
                            = PyStr(ENUMS[f].value_to_name[file.mode])
                      /\ meta.val[f \o ENUM_NAME_SUFFIX]
                            = PyStr(IF file.mode = 0 THEN "SEM" ELSE "FIB")
                 ELSE (f \o ENUM_NAME_SUFFIX) \notin DOMAIN meta.val
    /\ pc = "u_bare" =>
          /\ enc.ok
          /\ enc = write_header(meta.val)
          /\ WellFormed(file) => enc.val = header_bytes

C15_Witness ==
    /\ pc = "u_bare" /\ opts.name_enums /\ file.mode = 1 /\ file.ver = 8
    /\ meta.val["Mode"].v = 1
    /\ meta.val["Mode" \o ENUM_NAME_SUFFIX] = PyStr("FIB")
    /\ ("Mode" \o ENUM_NAME_SUFFIX) \notin DOMAIN without_enum_names(meta.val)
    /\ enc.ok /\ enc.val = header_bytes

(***************************************************************************)
(* The registry                                                            *)
(***************************************************************************)
(* Two rows of an enumeration file share their entry at position k. *)
has_duplicate(rows, k) ==
    \E i \in 1..Len(rows), j \in 1..Len(rows) : i # j /\ rows[i][k] = rows[j][k]

(* C16. Enumeration tables are bijections, as the specification words it:  *)
(* building an EnumMapping from rows that hold a code twice or a name      *)
(* twice fails, and in every table that was built get_value(get_name(v))   *)
(* is v for each code v of the rows and get_name(get_value(n)) is n for    *)
(* each name n of the rows.                                                *)
C16_AsStated ==
    pc \in {"l_enum", "l_looked"} =>
        /\ has_duplicate(tsv.rows, 1) \/ has_duplicate(tsv.rows, 2) => ~loaded.ok
        /\ loaded.ok =>
              \A i \in 1..Len(tsv.rows) :
                  /\ Then(get_name(loaded.val, tsv.rows[i][1]), LAMBDA name :
                          get_value(loaded.val, name)) = Ok(tsv.rows[i][1])
                  /\ Then(get_value(loaded.val, tsv.rows[i][2]), LAMBDA value :
                          get_name(loaded.val, value)) = Ok(tsv.rows[i][2])
        /\ pc = "l_looked" /\ opts.value \in DOMAIN loaded.val.value_to_name
              => ret = Ok(opts.value)

(* The line of a schema that has the given name. *)
line_named(rows, name) == CHOOSE line \in {rows[i] : i \in 1..Len(rows)} : line.name = name

(* C17. Forward-referencing shapes, as the specification words it: a       *)
(* schema in which the shape of field B names field A loads when A is at a *)
(* lower offset than B, and fails to load when B is at a lower offset than *)
(* A.                                                                      *)
C17_AsStated ==
    pc \in {"l_schema", "l_decoded"}
        /\ line_named(tsv.rows, "B").shape = <<Ref("A")>> =>
        IF line_named(tsv.rows, "A").offset < line_named(tsv.rows, "B").offset
        THEN loaded.ok
        ELSE ~loaded.ok

(***************************************************************************)
(* Versions and fields                                                     *)
(***************************************************************************)
(* The steps at which a decoded header of utils / a Header of compound is  *)
(* held.                                                                   *)
HoldsMeta ==
    pc \in {"u_parsed", "u_encoded", "u_bare", "u_missing", "u_reparsed",
            "u_jso", "u_jso_failed", "u_back"}

HoldsHeader == pc \in {"h_parsed", "h_bytes", "h_jso", "h_jso_failed", "h_back"}

(* C18. Version dispatch: the version is read at the place the version-0   *)
(* schema gives it (bytes 4..5), and the header is decoded with the schema *)
(* of that version: the decoded header holds FileVersion, equal to that    *)
(* version, and the fields of the schema of that version (with the derived *)
(* entries and nothing else); so does the compound Header.                 *)
C18_VersionDispatch ==
    /\ HoldsMeta =>
          /\ "FileVersion" \in DOMAIN meta.val
          /\ meta.val["FileVersion"] = NpScalar(U2, BEValue(Slice(dat, 4, 6)))
          /\ meta.val["FileVersion"].v = file.ver
          /\ file.ver \in DOMAIN SPECS
          /\ DOMAIN strip_derived(meta.val)
                = {SPECS[file.ver][i].name : i \in 1..Len(SPECS[file.ver])}
          /\ DOMAIN meta.val \ DOMAIN strip_derived(meta.val)
                \subseteq {DAT_NBYTES_FIELD} \cup {f \o ENUM_NAME_SUFFIX : f \in DOMAIN ENUMS}
          /\ "Scaling" \in DOMAIN meta.val <=> file.ver = 8
    /\ HoldsHeader =>
          /\ "FileVersion" \in DOMAIN header_fields(hdr.val)
          /\ header_fields(hdr.val)["FileVersion"].v = file.ver
          /\ DOMAIN header_fields(hdr.val)
                = {SPECS[file.ver][i].name : i \in 1..Len(SPECS[file.ver])}
    /\ pc = "p_done" => parsed.val.meta["FileVersion"].v = file.ver

C18_Witness ==
    /\ pc = "u_parsed" /\ file.ver = 8
    /\ meta.val["FileVersion"].v = 8
    /\ "Scaling" \in DOMAIN meta.val
    /\ meta.val["Scaling"].shape = <<2, file.num>>

(* C19. Unknown schema version: a file whose FileVersion has no schema in  *)
(* the registry is not decoded: parse_bytes, Header.from_bytes,            *)
(* ParsedData.from_bytes and the conversion raise KeyError, no decoded     *)
(* header or part of one is returned, and nothing is written.              *)
C19_UnknownVersion ==
    file.ver \notin DOMAIN SPECS =>
        /\ ~meta.ok /\ ~hdr.ok /\ ~parsed.ok /\ ~cv.ok
        /\ ~HoldsMeta /\ ~HoldsHeader
        /\ pc \in {"start", "u_failed", "h_failed", "p_failed", "c_failed", "v_raised"}
        /\ pc = "u_failed" => meta = Err("KeyError")
        /\ pc = "h_failed" => hdr = Err("KeyError")
        /\ pc = "p_failed" => parsed = Err("KeyError")
        /\ pc = "c_failed" => cv = Err("KeyError")
        /\ g = EmptyGroup

C19_Witness ==
    /\ pc = "u_failed" /\ file.ver = 9
    /\ BEValue(Slice(dat, 4, 6)) = 9
    /\ meta = Err("KeyError")

(* C20. Missing field on encode: for a mapping that lacks a field of the   *)
(* schema its FileVersion names (FileVersion itself included),             *)
(* write_header raises KeyError and Header.from_dict raises KeyError or    *)
(* SelfReferentialSpecException; neither returns bytes or a Header.        *)
C20_MissingField ==
    pc = "u_missing" =>
        /\ opts.missing \notin DOMAIN without_field(meta.val, opts.missing)
        /\ enc = Err("KeyError")
        /\ ~hback.ok
        /\ hback.err \in {"KeyError", "SelfReferentialSpecException"}
        /\ hback.err = "SelfReferentialSpecException"
              <=> file.ver = 8 /\ opts.missing = "ChanNum"

C20_Witness ==
    /\ pc = "u_missing" /\ file.ver = 8 /\ opts.missing = "Scaling"
    /\ "Scaling" \in DOMAIN meta.val
    /\ enc = Err("KeyError") /\ hback = Err("KeyError")

(***************************************************************************)
(* The registry during a session                                           *)
(***************************************************************************)
(* C21. Registry immutability: whatever decode, encode, split, join and    *)
(* JSON-conversion calls were made, SPECS, COMPOUND_SPECS and ENUMS are as *)
(* the imports left them: no entry added, removed or changed.              *)
C21_RegistryImmutable ==
    /\ registry = Imported
    /\ DOMAIN registry.COMPOUND_SPECS = {0, 7}
    /\ DOMAIN registry.SPECS = {0, 7, 8}

C21_Witness ==
    /\ pc = "u_missing" /\ file.ver = 8 /\ opts.missing = "Scaling"
    /\ make_compound_dtype(8, without_field(meta.val, "Scaling")).ok
    /\ 8 \notin DOMAIN registry.COMPOUND_SPECS
    /\ registry = Imported

(***************************************************************************)
(* Shapes that name fields                                                 *)
(***************************************************************************)
(* The position of the line of a field in the schema file. *)
line_index(rows, name) == CHOOSE i \in 1..Len(rows) : rows[i].name = name

(* The errors that decoding raises for a buffer it cannot decode: KeyError *)
(* for a version or an enum code that the registry does not hold,          *)
(* ValueError for a buffer that ends before the end of a field.            *)
BufferErrors == {"KeyError", "ValueError"}

(* C22. Dependency order of decoding, as the specification words it: when  *)
(* the line of a field whose shape names another field is read before the  *)
(* named field is in the mapping, decoding fails with an error of its own, *)
(* which is none of the errors raised for a buffer that cannot be decoded, *)
(* and stores nothing; read after the named field, the field is decoded    *)
(* with the value of the named field as its shape.                         *)
C22_AsStated ==
    pc = "l_decoded" /\ line_named(tsv.rows, "B").shape = <<Ref("A")>> =>
        IF line_index(tsv.rows, "B") < line_index(tsv.rows, "A")
        THEN ~meta.ok /\ meta.err \notin BufferErrors
        ELSE meta.ok /\ meta.val["B"].shape = <<meta.val["A"].v>>

(***************************************************************************)
(* Buffers that end inside the header                                      *)
(***************************************************************************)
(* C23. Header truncation policy, as the specification words it: when the  *)
(* buffer ends before the end of a header field, the fill argument of the  *)
(* decode call decides: without a fill value decoding fails, with one the  *)
(* missing bytes of the field are the fill value and decoding goes on.     *)
C23_AsStated ==
    pc \in {"p_done", "p_failed"} /\ Len(dat) < HEADER_LENGTH =>
        parsed.ok = opts.fill.given

(***************************************************************************)
(* The layout of a schema                                                  *)
(***************************************************************************)
(* The lines of a schema, and the schemas whose shapes name no field. *)
schema_lines(rows) == {rows[i] : i \in 1..Len(rows)}

all_literal(rows) ==
    \A line \in schema_lines(rows) : \A i \in 1..Len(line.shape) : line.shape[i].int

(* The number of items of a line with a literal shape (the shape "0" is a  *)
(* single item), and the offset at which the field ends.                   *)
RECURSIVE lit_count(_)
lit_count(shape) ==
    IF Len(shape) = 0 THEN 1 ELSE Head(shape).n * lit_count(Tail(shape))

field_end(line) ==
    line.offset + line.dtype.size
        * (IF line.shape = <<Lit(0)>> THEN 1 ELSE lit_count(line.shape))

(* Two lines of which one starts inside the other. *)
overlapping(rows) ==
    \E i, j \in 1..Len(rows) :
        i # j /\ rows[i].offset <= rows[j].offset
              /\ rows[j].offset < field_end(rows[i])

(* The offsets below HEADER_LENGTH at which a gap starts (the start of the *)
(* header or the end of a field, with no field there), and where the gap   *)
(* ends (the next field, or HEADER_LENGTH after the last one).             *)
field_covers(rows, p) ==
    \E line \in schema_lines(rows) : line.offset <= p /\ p < field_end(line)

gap_starts(rows) ==
    {p \in {0} \cup {field_end(line) : line \in schema_lines(rows)} :
        p < HEADER_LENGTH /\ ~field_covers(rows, p)}

gap_end(rows, p) ==
    LET later == {line.offset : line \in {l \in schema_lines(rows) : l.offset > p}}
    IN  IF later = {} THEN HEADER_LENGTH
        ELSE CHOOSE o \in later : \A q \in later : o <= q

(* C24. Schema layout: a schema in which a field starts before the end of  *)
(* another is rejected with ValueError; of any other schema the compound   *)
(* dtype is built, and it has one spacer of one-byte items for each gap    *)
(* between consecutive fields and for the gap from the last field to       *)
(* HEADER_LENGTH, and no other spacer.                                     *)
C24_SchemaLayout ==
    pc = "l_schema" /\ all_literal(tsv.rows) =>
        IF overlapping(tsv.rows) THEN loaded = Err("ValueError")
        ELSE /\ loaded.ok
             /\ Len(loaded.val.compound) = 1
             /\ LET built == loaded.val.compound[1]
                    members == {built.dtype[i] : i \in 1..Len(built.dtype)}
                IN  /\ built.spacers = [p \in gap_starts(tsv.rows) |->
                                            gap_end(tsv.rows, p) - p]
                    /\ {m \in members : m.spacer}
                         = {Member("_", U1, <<gap_end(tsv.rows, p) - p>>, p, TRUE) :
                                p \in gap_starts(tsv.rows)}
                    /\ {m.name : m \in {n \in members : ~n.spacer}}
                         = {line.name : line \in schema_lines(tsv.rows)}

C24_Witness ==
    /\ pc = "l_schema" /\ all_literal(tsv.rows) /\ loaded.ok
    /\ line_named(tsv.rows, "B").offset = 24
    /\ loaded.val.compound[1].spacers = (6 :> 18) @@ (28 :> 4) @@ (33 :> 991)

(* The last field of the schema ends at or before HEADER_LENGTH. *)
ends_in_header(rows) ==
    \A line \in schema_lines(rows) : field_end(line) <= HEADER_LENGTH

(* C30. Spacer coverage: in the compound dtype built for a schema whose    *)
(* last field ends at or before HEADER_LENGTH, the members follow each     *)
(* other without a gap from offset 0, each field at the offset of its      *)
(* line; every byte of the header belongs to exactly one member; the size  *)
(* of the record is HEADER_LENGTH; and each key of the spacers is an       *)
(* offset that no field covers, its value the distance to the next field   *)
(* or to HEADER_LENGTH.                                                    *)
C30_SpacerCoverage ==
    pc = "l_schema" /\ loaded.ok /\ Len(loaded.val.compound) = 1
        /\ ends_in_header(tsv.rows) =>
        LET built == loaded.val.compound[1]
            dt    == built.dtype
        IN  /\ itemsize(dt) = HEADER_LENGTH
            /\ \A i \in 1..Len(dt) : dt[i].offset = itemsize(SubSeq(dt, 1, i - 1))
            /\ \A i \in 1..Len(dt) :
                   ~dt[i].spacer => dt[i].offset = line_named(tsv.rows, dt[i].name).offset
            /\ \A byte \in 0..(HEADER_LENGTH - 1) :
                   Cardinality({i \in 1..Len(dt) :
                       dt[i].offset <= byte
                           /\ byte < dt[i].offset + member_size(dt[i])}) = 1
            /\ \A p \in DOMAIN built.spacers :
                   /\ ~field_covers(tsv.rows, p)
                   /\ built.spacers[p] > 0
                   /\ \A q \in p..(p + built.spacers[p] - 1) : ~field_covers(tsv.rows, q)
                   /\ p + built.spacers[p] = HEADER_LENGTH
                        \/ field_covers(tsv.rows, p + built.spacers[p])
                   /\ p = 0 \/ field_covers(tsv.rows, p - 1)

(* The last field ends at HEADER_LENGTH: nothing follows it. *)
C30_Witness ==
    /\ pc = "l_schema" /\ loaded.ok /\ Len(loaded.val.compound) = 1
    /\ line_named(tsv.rows, "B").offset = 1020
    /\ field_end(line_named(tsv.rows, "B")) = HEADER_LENGTH
    /\ DOMAIN loaded.val.compound[1].spacers = {6, 33}
    /\ itemsize(loaded.val.compound[1].dtype) = HEADER_LENGTH

(***************************************************************************)
(* The payload array                                                       *)
(***************************************************************************)
(* The value of the payload item at 0-based position n: one byte of the    *)
(* file, unsigned, or two bytes, the first the high one, as a signed       *)
(* number.                                                                 *)
payload_item(b, n, two_bytes) ==
    IF ~two_bytes THEN b[HEADER_LENGTH + n + 1]
    ELSE LET u == 256 * b[HEADER_LENGTH + 2 * n + 1] + b[HEADER_LENGTH + 2 * n + 2]
         IN  IF u >= 32768 THEN u - 65536 ELSE u

(* C25. Payload element type and shape: the payload array of a decoded     *)
(* file has the shape (ChanNum, XResolution, YResolution) of the header;   *)
(* its elements are one-byte unsigned when EightBit is not zero and        *)
(* two-byte big-endian signed otherwise, read from byte HEADER_LENGTH on.   *)
C25_PayloadType ==
    pc = "p_done" /\ file.trunc = 0 =>
        LET data == parsed.val.data
        IN  /\ data.shape = <<file.num, file.x, file.y>>
            /\ data.dtype = (IF file.eight # 0 THEN U1 ELSE I2)
            /\ DOMAIN data.el = Indices(data.shape)
            /\ \A idx \in Indices(data.shape) :
                   data.el[idx] =
                       payload_item(dat, idx[1] + file.num * (idx[2] + file.x * idx[3]),
                                    file.eight = 0)

C25_Witness ==
    /\ pc = "p_done" /\ file = Base(7)
    /\ Slice(dat, HEADER_LENGTH, HEADER_LENGTH + 4) = <<255, 254, 253, 252>>
    /\ parsed.val.data.dtype = I2
    /\ parsed.val.data.el[<<0, 0, 0>>] = -2
    /\ parsed.val.data.el[<<1, 0, 0>>] = -516

(***************************************************************************)
(* Enum codes without a name                                               *)
(***************************************************************************)
(* C27. Unknown enum code: the decode of a header whose Mode byte is not a *)
(* code of the Mode table raises KeyError when the names of enum values    *)
(* are asked for; when they are not, it succeeds, and the mapping holds    *)
(* the integer and no name for it.                                         *)
C27_UnknownEnumCode ==
    pc \in {"u_parsed", "u_failed"} /\ file.ver \in DOMAIN SPECS
        /\ Len(dat) >= HEADER_LENGTH
        /\ file.mode \notin DOMAIN ENUMS["Mode"].value_to_name =>
        IF opts.name_enums THEN meta = Err("KeyError")
        ELSE /\ meta.ok
             /\ meta.val["Mode"] = NpScalar(U1, file.mode)
             /\ "Mode" \o ENUM_NAME_SUFFIX \notin DOMAIN meta.val

C27_Witness ==
    /\ pc = "u_parsed" /\ ~opts.name_enums
    /\ file.mode = 5 /\ dat[35] = 5
    /\ meta.val["Mode"].v = 5

(***************************************************************************)
(* The byte count of a decoded header                                      *)
(***************************************************************************)
(* C28. Recorded original length: the byte count entry of a decoded header *)
(* is the length of the buffer given to parse_bytes: the length of the     *)
(* file when the whole file is given, and at most HEADER_LENGTH when the    *)
(* header is decoded through parse_file.                                   *)
C28_RecordedLength ==
    pc = "u_parsed" =>
        /\ DAT_NBYTES_FIELD \in DOMAIN meta.val
        /\ meta.val[DAT_NBYTES_FIELD] =
               NpScalar(DType("u", 8),
                        IF opts.whole \/ Len(dat) < HEADER_LENGTH THEN Len(dat)
                        ELSE HEADER_LENGTH)

C28_Witness ==
    /\ pc = "u_parsed" /\ opts.whole
    /\ Len(dat) = HEADER_LENGTH + 24 + 5
    /\ meta.val[DAT_NBYTES_FIELD].v = 1053

(***************************************************************************)
(* Reconstruction and the completion flag                                  *)
(***************************************************************************)
(* The group with its completion flag removed, and with the flag set. *)
without_flag(grp) ==
    [grp EXCEPT !.attrs = [k \in DOMAIN grp.attrs \ {COMPLETE_FIELD} |-> grp.attrs[k]]]

with_flag(grp, v) ==
    [grp EXCEPT !.attrs = (COMPLETE_FIELD :> PyBool(v)) @@ without_flag(grp).attrs]

(* C29. Reconstruction from an incomplete group: what hdf5_to_bytes        *)
(* returns (or raises) for a group is what group_to_bytes returns (or      *)
(* raises) for it, and is the same for the group without its completion    *)
(* flag, with the flag false and with the flag true.                       *)
C29_FlagIgnored ==
    pc \in {"v_done", "v_raised"} =>
        /\ recon = group_to_bytes(g, FALSE, TRUE)
        /\ recon = hdf5_to_bytes(without_flag(g))
        /\ recon = hdf5_to_bytes(with_flag(g, FALSE))
        /\ recon = hdf5_to_bytes(with_flag(g, TRUE))

C29_Witness ==
    /\ pc = "v_done" /\ ~cv.ok
    /\ COMPLETE_FIELD \notin DOMAIN g.attrs
    /\ recon.ok /\ recon.val = dat

(***************************************************************************)
(* Writing a .dat file                                                     *)
(***************************************************************************)
(* C26. write_dat guard, as the specification words it: when the target    *)
(* exists write_dat returns 2; when the response is empty, "n" or "no" it  *)
(* returns 0; on any other response that is not "yes" it returns 2; in     *)
(* these cases nothing is reconstructed and nothing is written; bytes are  *)
(* written only when the target does not exist and the response is "yes".  *)
C26_AsStated ==
    pc = "w_done" =>
        /\ opts.exists => ret = Ok(2) /\ target = None /\ recon = None
        /\ ~opts.exists /\ lower(strip(opts.response)) \in {<<>>, <<"n">>, <<"n", "o">>} =>
               ret = Ok(0) /\ target = None /\ recon = None
        /\ ~opts.exists /\ strip(opts.response) # <<"y", "e", "s">>
              /\ lower(strip(opts.response)) \notin {<<>>, <<"n">>, <<"n", "o">>} =>
               ret = Ok(2) /\ target = None /\ recon = None
        /\ target # None => ~opts.exists /\ strip(opts.response) = <<"y", "e", "s">>

=============================================================================
